---- MODULE Spec2Model ----
(***************************************************************************)
(* A model of the tet-rs rules engine (src/src/engine/base.rs, with the    *)
(* playfield and the shape catalogue of src/src/core.rs): the per-tick     *)
(* state machine of BaseEngine, its input processing, collision test,      *)
(* rotation with wall kicks, spin detection, gravity, lock and line clear. *)
(***************************************************************************)
EXTENDS Integers, Sequences, FiniteSets, TLC

(***************************************************************************)
(* Program constants.                                                      *)
(***************************************************************************)
WIDTH == 10
VISIBLE_HEIGHT == 20
TOTAL_HEIGHT == 40
AUTO_REPEAT_DELAY == 12
AUTO_REPEAT_RATE == 7
LOCK_DELAY == 30
LINE_CLEAR_DELAY == 30
SPAWN_ROW == 19
SPAWN_COL == 4
SOFT_DROP_FACTOR == 20
DEFAULT_TICKS_PER_ROW == 30

(***************************************************************************)
(* Bounds of the model (not program constants).                            *)
(*   StackDrops: pieces the stacking caller hard-drops where they spawn.   *)
(*   MaxPresses: input_action calls the player makes in free play.         *)
(*   MaxLocks:   pieces locked in free play before the caller stops        *)
(*               ticking a piece in play.                                  *)
(*   MaxRepeats: input_action calls for one action between two ticks.      *)
(*   PieceRows:  highest row of a piece the methods are called on directly *)
(*               (apart from the pieces at the ceiling).                   *)
(*   DropRows:   largest n_rows given to drop, apart from TOTAL_HEIGHT.    *)
(*   FieldRows:  rows from the floor up that the fields given to           *)
(*               clear_rows fill, besides the two rows under the ceiling.  *)
(*   MaxDraws:   next() calls made on a generator on its own.              *)
(*   MaxGravity: largest count of a gravity multiplied on its own.         *)
(*   MaxFactor:  largest factor a gravity is multiplied by.                *)
(*   FactorDen:  the factors are the multiples of 1 / FactorDen.           *)
(***************************************************************************)
StackDrops == 14
MaxPresses == 1
MaxLocks == 1
MaxRepeats == 2
PieceRows == 4
DropRows == 3
FieldRows == 3
MaxDraws == 28
MaxGravity == 30
MaxFactor == 22
FactorDen == 2

\* F applied to the value of x, computed once: a `let` binding of the code.
Let(F(_), x) == CHOOSE r \in {F(v) : v \in {x}} : TRUE

(***************************************************************************)
(* core.rs: Tetromino, Rotation, Piece and the shape catalogue.            *)
(***************************************************************************)
Tetromino == {"I", "O", "T", "S", "Z", "J", "L"}

Rotation == {"Spawn", "Clockwise", "OneEighty", "CounterClockwise"}

cw(r) ==
    CASE r = "Spawn" -> "Clockwise"
      [] r = "Clockwise" -> "OneEighty"
      [] r = "OneEighty" -> "CounterClockwise"
      [] r = "CounterClockwise" -> "Spawn"

ccw(r) ==
    CASE r = "Spawn" -> "CounterClockwise"
      [] r = "Clockwise" -> "Spawn"
      [] r = "OneEighty" -> "Clockwise"
      [] r = "CounterClockwise" -> "OneEighty"

\* The macro bounding_box! takes the four rows top row first and stores them
\* bottom row first: index 0 of the result is the bottom row of the box.
bounding_box(m) == [i \in 0..3 |-> [j \in 0..3 |-> m[4 - i][j + 1]]]

\* The masks as written in Piece::get_bounding_box (1 is #, 0 is -).
Masks ==
    [I |-> [Spawn            |-> <<<<0,0,0,0>>, <<1,1,1,1>>, <<0,0,0,0>>, <<0,0,0,0>>>>,
            Clockwise        |-> <<<<0,0,1,0>>, <<0,0,1,0>>, <<0,0,1,0>>, <<0,0,1,0>>>>,
            OneEighty        |-> <<<<0,0,0,0>>, <<0,0,0,0>>, <<1,1,1,1>>, <<0,0,0,0>>>>,
            CounterClockwise |-> <<<<0,1,0,0>>, <<0,1,0,0>>, <<0,1,0,0>>, <<0,1,0,0>>>>],
     O |-> [Spawn            |-> <<<<0,1,1,0>>, <<0,1,1,0>>, <<0,0,0,0>>, <<0,0,0,0>>>>,
            Clockwise        |-> <<<<0,1,1,0>>, <<0,1,1,0>>, <<0,0,0,0>>, <<0,0,0,0>>>>,
            OneEighty        |-> <<<<0,1,1,0>>, <<0,1,1,0>>, <<0,0,0,0>>, <<0,0,0,0>>>>,
            CounterClockwise |-> <<<<0,1,1,0>>, <<0,1,1,0>>, <<0,0,0,0>>, <<0,0,0,0>>>>],
     T |-> [Spawn            |-> <<<<0,1,0,0>>, <<1,1,1,0>>, <<0,0,0,0>>, <<0,0,0,0>>>>,
            Clockwise        |-> <<<<0,1,0,0>>, <<0,1,1,0>>, <<0,1,0,0>>, <<0,0,0,0>>>>,
            OneEighty        |-> <<<<0,0,0,0>>, <<1,1,1,0>>, <<0,1,0,0>>, <<0,0,0,0>>>>,
            CounterClockwise |-> <<<<0,1,0,0>>, <<1,1,0,0>>, <<0,1,0,0>>, <<0,0,0,0>>>>],
     S |-> [Spawn            |-> <<<<0,1,1,0>>, <<1,1,0,0>>, <<0,0,0,0>>, <<0,0,0,0>>>>,
            Clockwise        |-> <<<<0,1,0,0>>, <<0,1,1,0>>, <<0,0,1,0>>, <<0,0,0,0>>>>,
            OneEighty        |-> <<<<0,0,0,0>>, <<0,1,1,0>>, <<1,1,0,0>>, <<0,0,0,0>>>>,
            CounterClockwise |-> <<<<1,0,0,0>>, <<1,1,0,0>>, <<0,1,0,0>>, <<0,0,0,0>>>>],
     Z |-> [Spawn            |-> <<<<1,1,0,0>>, <<0,1,1,0>>, <<0,0,0,0>>, <<0,0,0,0>>>>,
            Clockwise        |-> <<<<0,0,1,0>>, <<0,1,1,0>>, <<0,1,0,0>>, <<0,0,0,0>>>>,
            OneEighty        |-> <<<<0,0,0,0>>, <<1,1,0,0>>, <<0,1,1,0>>, <<0,0,0,0>>>>,
            CounterClockwise |-> <<<<0,1,0,0>>, <<1,1,0,0>>, <<1,0,0,0>>, <<0,0,0,0>>>>],
     J |-> [Spawn            |-> <<<<1,0,0,0>>, <<1,1,1,0>>, <<0,0,0,0>>, <<0,0,0,0>>>>,
            Clockwise        |-> <<<<0,1,1,0>>, <<0,1,0,0>>, <<0,1,0,0>>, <<0,0,0,0>>>>,
            OneEighty        |-> <<<<0,0,0,0>>, <<1,1,1,0>>, <<0,0,1,0>>, <<0,0,0,0>>>>,
            CounterClockwise |-> <<<<0,1,0,0>>, <<0,1,0,0>>, <<1,1,0,0>>, <<0,0,0,0>>>>],
     L |-> [Spawn            |-> <<<<0,0,1,0>>, <<1,1,1,0>>, <<0,0,0,0>>, <<0,0,0,0>>>>,
            Clockwise        |-> <<<<0,1,0,0>>, <<0,1,0,0>>, <<0,1,1,0>>, <<0,0,0,0>>>>,
            OneEighty        |-> <<<<0,0,0,0>>, <<1,1,1,0>>, <<1,0,0,0>>, <<0,0,0,0>>>>,
            CounterClockwise |-> <<<<1,1,0,0>>, <<0,1,0,0>>, <<0,1,0,0>>, <<0,0,0,0>>>>]]

\* Piece::get_bounding_box, kept as the set of (row_offset, col_offset) pairs
\* of its Space::Block entries.
BoxBlocks ==
    [s \in Tetromino |-> [r \in Rotation |->
        {<<i, j>> \in (0..3) \X (0..3) : bounding_box(Masks[s][r])[i][j] = 1}]]

get_bounding_box(piece) == BoxBlocks[piece.shape][piece.rotation]

\* CurrentPiece::new: a piece of the given shape in spawn position.
CurrentPieceNew(shape) ==
    [shape |-> shape, rotation |-> "Spawn", row |-> SPAWN_ROW, col |-> SPAWN_COL]

\* The playfield cells the piece's blocks cover.
PieceCells(piece) ==
    {<<piece.row + o[1], piece.col + o[2]>> : o \in get_bounding_box(piece)}

(***************************************************************************)
(* core.rs: Playfield.  The grid is kept as the set of its Block cells,    *)
(* <<row, col>> with 1-based indices.                                      *)
(***************************************************************************)
PlayfieldNew == {}

\* Playfield::check_index: TRUE when the access is in range (no panic).
check_index(row, col) ==
    /\ row >= 1 /\ row <= TOTAL_HEIGHT
    /\ col >= 1 /\ col <= WIDTH

\* Playfield::get(row, col) == Space::Block.
IsBlock(field, row, col) == <<row, col>> \in field

(***************************************************************************)
(* base.rs: collision, drop and horizontal move.                           *)
(***************************************************************************)
\* BaseEngine::has_collision_with_piece: the boolean it returns, for a piece
\* whose blocks are all at or below row TOTAL_HEIGHT (CollisionScan below
\* follows the loop for any piece).
has_collision_with_piece(field, piece) ==
    \E c \in PieceCells(piece) :
        \/ c[1] < 1 \/ c[2] < 1 \/ c[2] > WIDTH
        \/ (c[1] >= 1 /\ c[2] >= 1 /\ IsBlock(field, c[1], c[2]))

\* The loop of has_collision_with_piece over the bounding box, from its
\* k-th space on (row by row from the bottom, left to right): "collision"
\* or "free" for the boolean returned, "panic" when Playfield::get is
\* reached with a row above TOTAL_HEIGHT and check_index panics.
RECURSIVE CollisionScan(_, _, _)
CollisionScan(field, piece, k) ==
    IF k = 16 THEN "free"
    ELSE LET row == piece.row + (k \div 4)
             col == piece.col + (k % 4)
         IN  IF <<k \div 4, k % 4>> \notin get_bounding_box(piece)
             THEN CollisionScan(field, piece, k + 1)
             ELSE IF row < 1 \/ col < 1 \/ col > WIDTH THEN "collision"
             ELSE IF ~check_index(row, col) THEN "panic"
             ELSE IF IsBlock(field, row, col) THEN "collision"
             ELSE CollisionScan(field, piece, k + 1)

\* BaseEngine::drop: the rows descended, at most n_rows, stopping before the
\* first collision (the loop of lines 654-660, row by row).
RECURSIVE DropLoop(_, _, _, _)
DropLoop(field, piece, n_rows, row) ==
    IF row >= n_rows THEN n_rows
    ELSE IF has_collision_with_piece(field, [piece EXCEPT !.row = piece.row - row - 1])
         THEN row
         ELSE DropLoop(field, piece, n_rows, row + 1)

\* drop without the collision test.
drop_requested(field, piece, n_rows) == n_rows

\* drop stopping after one row whatever n_rows is.
drop_one_row(field, piece, n_rows) == DropLoop(field, piece, 1, 0)

drop(field, piece, n_rows) == DropLoop(field, piece, n_rows, 0)

\* is_in_lock_position looking two rows down: true one row too early.
is_in_lock_position_early(field, piece) ==
    has_collision_with_piece(field, [piece EXCEPT !.row = piece.row - 2])

\* BaseEngine::is_in_lock_position.
is_in_lock_position(field, piece) ==
    has_collision_with_piece(field, [piece EXCEPT !.row = piece.row - 1])

Abs(x) == IF x < 0 THEN -x ELSE x

Signum(x) == IF x < 0 THEN -1 ELSE IF x > 0 THEN 1 ELSE 0

\* move_piece without the collision test.
move_piece_through(field, piece, col_offset) == Abs(col_offset)

\* BaseEngine::move_piece: the columns moved, stepping one column at a time.
RECURSIVE MoveLoop(_, _, _, _)
MoveLoop(field, piece, col_offset, col) ==
    IF col >= Abs(col_offset) THEN Abs(col_offset)
    ELSE IF has_collision_with_piece(field,
                [piece EXCEPT !.col = piece.col + (col + 1) * Signum(col_offset)])
         THEN col
         ELSE MoveLoop(field, piece, col_offset, col + 1)

move_piece(field, piece, col_offset) == MoveLoop(field, piece, col_offset, 0)

(***************************************************************************)
(* base.rs: rotation with wall kicks, and spin detection.                  *)
(***************************************************************************)
ROTATION_POINT_FIVE == 4

\* The I table of check_rotation, (col, row) offsets in the order tried.
IWallKickOffsets(initial, rotated) ==
    CASE initial = "Spawn" /\ rotated = "Clockwise" -> <<<<-2, 0>>, <<1, 0>>, <<-2, -1>>, <<1, 2>>>>
      [] initial = "Clockwise" /\ rotated = "Spawn" -> <<<<2, 0>>, <<-1, 0>>, <<2, 1>>, <<-1, -2>>>>
      [] initial = "Clockwise" /\ rotated = "OneEighty" -> <<<<-1, 0>>, <<2, 0>>, <<-1, 2>>, <<2, -1>>>>
      [] initial = "OneEighty" /\ rotated = "Clockwise" -> <<<<1, 0>>, <<-2, 0>>, <<1, -2>>, <<-2, 1>>>>
      [] initial = "OneEighty" /\ rotated = "CounterClockwise" -> <<<<2, 0>>, <<-1, 0>>, <<2, 1>>, <<-1, -2>>>>
      [] initial = "CounterClockwise" /\ rotated = "OneEighty" -> <<<<-2, 0>>, <<1, 0>>, <<-2, -1>>, <<1, 2>>>>
      [] initial = "CounterClockwise" /\ rotated = "Spawn" -> <<<<1, 0>>, <<-2, 0>>, <<1, -2>>, <<-2, 1>>>>
      [] initial = "Spawn" /\ rotated = "CounterClockwise" -> <<<<-1, 0>>, <<2, 0>>, <<-1, 2>>, <<2, -1>>>>
      [] OTHER -> <<>>

\* The table of check_rotation shared by T, S, Z, J and L.
SharedWallKickOffsets(initial, rotated) ==
    CASE initial = "Spawn" /\ rotated = "Clockwise" -> <<<<-1, 0>>, <<-1, 1>>, <<0, -2>>, <<-1, -2>>>>
      [] initial = "Clockwise" /\ rotated = "Spawn" -> <<<<1, 0>>, <<1, -1>>, <<0, 2>>, <<1, 2>>>>
      [] initial = "Clockwise" /\ rotated = "OneEighty" -> <<<<1, 0>>, <<1, -1>>, <<0, 2>>, <<1, 2>>>>
      [] initial = "OneEighty" /\ rotated = "Clockwise" -> <<<<-1, 0>>, <<-1, 1>>, <<0, -2>>, <<-1, -2>>>>
      [] initial = "OneEighty" /\ rotated = "CounterClockwise" -> <<<<1, 0>>, <<1, 1>>, <<0, -2>>, <<1, -2>>>>
      [] initial = "CounterClockwise" /\ rotated = "OneEighty" -> <<<<-1, 0>>, <<-1, -1>>, <<0, 2>>, <<-1, 2>>>>
      [] initial = "CounterClockwise" /\ rotated = "Spawn" -> <<<<-1, 0>>, <<-1, -1>>, <<0, 2>>, <<-1, 2>>>>
      [] initial = "Spawn" /\ rotated = "CounterClockwise" -> <<<<1, 0>>, <<1, 1>>, <<0, -2>>, <<1, -2>>>>
      [] OTHER -> <<>>

\* The match of check_rotation, lines 811-841.
wall_kick_offsets(shape, initial, rotated) ==
    IF shape = "O" THEN <<>>
    ELSE IF shape = "I" THEN IWallKickOffsets(initial, rotated)
    ELSE SharedWallKickOffsets(initial, rotated)

\* The arms of that match that panic: the O piece and the 180 degree pairs.
WallKickPanics(shape, initial, rotated) ==
    \/ shape = "O"
    \/ rotated \notin {cw(initial), ccw(initial)}

\* KickLoop taking the last offset that fits instead of the first.
RECURSIVE KickLoopLastFit(_, _, _, _)
KickLoopLastFit(field, piece, offsets, rotation_point) ==
    IF rotation_point >= Len(offsets) THEN [found |-> FALSE, panic |-> FALSE]
    ELSE LET offset == offsets[Len(offsets) - rotation_point]
             kicked == [piece EXCEPT !.col = piece.col + offset[1],
                                     !.row = piece.row + offset[2]]
         IN  IF ~has_collision_with_piece(field, kicked)
             THEN [found |-> TRUE, offset |-> offset, point_five |-> FALSE,
                   panic |-> FALSE]
             ELSE KickLoopLastFit(field, piece, offsets, rotation_point + 1)

\* The loop of check_rotation, lines 844-858, from zero-based index
\* rotation_point on: the first offset without collision.
RECURSIVE KickLoop(_, _, _, _)
KickLoop(field, piece, offsets, rotation_point) ==
    IF rotation_point >= Len(offsets) THEN [found |-> FALSE, panic |-> FALSE]
    ELSE LET offset == offsets[rotation_point + 1]
             kicked == [piece EXCEPT !.col = piece.col + offset[1],
                                     !.row = piece.row + offset[2]]
         IN  IF ~has_collision_with_piece(field, kicked)
             THEN [found |-> TRUE, offset |-> offset,
                   point_five |-> piece.shape = "T"
                                  /\ rotation_point = ROTATION_POINT_FIVE,
                   panic |-> FALSE]
             ELSE KickLoop(field, piece, offsets, rotation_point + 1)

\* BaseEngine::check_rotation for the already rotated piece.  `panic` says
\* that the match on the shape and the rotations reached a panicking arm.
check_rotation(field, piece, initial, rotated) ==
    IF ~has_collision_with_piece(field, piece)
    THEN [found |-> TRUE, offset |-> <<0, 0>>, point_five |-> FALSE, panic |-> FALSE]
    ELSE IF WallKickPanics(piece.shape, initial, rotated)
    THEN [found |-> FALSE, panic |-> TRUE]
    ELSE KickLoop(field, piece, wall_kick_offsets(piece.shape, initial, rotated), 0)

\* CornerOffsets using the offsets of the spawn rotation for every rotation.
CornerOffsetsOfSpawn(rotation) == <<<<3, 0>>, <<3, 2>>, <<1, 0>>, <<1, 2>>>>

\* The corner offsets (row, col) A, B, C, D of detect_t_spin.
CornerOffsets(rotation) ==
    CASE rotation = "Spawn" -> <<<<3, 0>>, <<3, 2>>, <<1, 0>>, <<1, 2>>>>
      [] rotation = "Clockwise" -> <<<<3, 2>>, <<1, 2>>, <<3, 0>>, <<1, 0>>>>
      [] rotation = "OneEighty" -> <<<<1, 2>>, <<1, 0>>, <<3, 2>>, <<3, 0>>>>
      [] rotation = "CounterClockwise" -> <<<<1, 0>>, <<3, 0>>, <<1, 2>>, <<3, 2>>>>

\* is_occupied of detect_t_spin.
is_occupied(field, piece, offset) ==
    LET row == piece.row + offset[1]
        col == piece.col + offset[2]
    IN  \/ row < 1 \/ row > TOTAL_HEIGHT
        \/ col < 1 \/ col > WIDTH
        \/ IsBlock(field, row, col)

\* BaseEngine::detect_t_spin, for the piece after a rotation.
detect_t_spin(field, piece, current_t_spin) ==
    IF piece.shape # "T" THEN "None"
    ELSE IF current_t_spin = "PointFive" THEN "PointFive"
    ELSE LET Classify(a, b, c, d) ==
                 IF a /\ b /\ (c \/ d) THEN "Regular"
                 ELSE IF c /\ d /\ (a \/ b) THEN "Mini"
                 ELSE "None"
             Corners(o) ==
                 Classify(is_occupied(field, piece, o[1]), is_occupied(field, piece, o[2]),
                          is_occupied(field, piece, o[3]), is_occupied(field, piece, o[4]))
         IN  Let(Corners, CornerOffsets(piece.rotation))

\* enum TSpinInternal.
TSpinInternal == {"None", "Regular", "Mini", "PointFive"}

\* impl From<&TSpinInternal> for TSpin.
TSpinFrom(t_spin_internal) ==
    CASE t_spin_internal = "None" -> "None"
      [] t_spin_internal \in {"Regular", "PointFive"} -> "Regular"
      [] t_spin_internal = "Mini" -> "Mini"

\* BaseEngine::rotate_piece on the engine record e; rotate is cw or ccw.
\* The result carries `rotated`, the boolean rotate_piece returns; a panic
\* of check_rotation is kept in the engine record as `aborted`.
rotate_piece(e, clockwise) ==
    LET initial == e.current_piece.rotation
        rotated == IF clockwise THEN cw(initial) ELSE ccw(initial)
        Rotated(res) ==
            IF res.found
            THEN LET piece == [e.current_piece EXCEPT
                                  !.col = e.current_piece.col + res.offset[1],
                                  !.row = e.current_piece.row + res.offset[2],
                                  !.rotation = rotated]
                     spin == IF res.point_five THEN "PointFive" ELSE e.current_t_spin
                 IN  [engine |-> [e EXCEPT !.current_piece = piece,
                                           !.current_t_spin =
                                               detect_t_spin(e.playfield, piece, spin)],
                      rotated |-> TRUE]
            ELSE [engine |-> [e EXCEPT !.aborted = e.aborted \/ res.panic],
                  rotated |-> FALSE]
    IN  Let(Rotated, check_rotation(e.playfield,
                                    [e.current_piece EXCEPT !.rotation = rotated],
                                    initial, rotated))

(***************************************************************************)
(* base.rs: Gravity and its multiplication by a whole factor.              *)
(***************************************************************************)
TicksPerRow(n) == [kind |-> "TicksPerRow", n |-> n]

RowsPerTick(n) == [kind |-> "RowsPerTick", n |-> n]

U8_MAX == 255

\* f64::round of a / b, for a >= 0 and b > 0: half rounds away from zero.
RoundDiv(a, b) == (2 * a + b) \div (2 * b)

\* `x as u8` for a float x >= 0 that is a whole number: the cast saturates.
AsU8(x) == IF x > U8_MAX THEN U8_MAX ELSE x

\* Mul with the clamp to the visible height left out.
MulUnclamped(gravity, num, den) ==
    IF gravity.kind = "TicksPerRow"
    THEN IF gravity.n * den > num
         THEN TicksPerRow(AsU8(RoundDiv(gravity.n * den, num)))
         ELSE IF gravity.n = 0
              THEN RowsPerTick(U8_MAX)
              ELSE RowsPerTick(AsU8(num \div (den * gravity.n)))
    ELSE RowsPerTick(AsU8((gravity.n * num) \div den))

\* impl Mul<f64> for Gravity, for the right-hand side rhs = num / den with
\* num > 0 and den > 0.  A TicksPerRow(0) divides rhs by zero: the quotient
\* is infinite and is clamped.
Mul(gravity, num, den) ==
    IF gravity.kind = "TicksPerRow"
    THEN IF gravity.n * den > num
         THEN TicksPerRow(AsU8(RoundDiv(gravity.n * den, num)))
         ELSE IF gravity.n = 0 \/ num > VISIBLE_HEIGHT * den * gravity.n
              THEN RowsPerTick(VISIBLE_HEIGHT)
              ELSE RowsPerTick(AsU8(num \div (den * gravity.n)))
    ELSE IF gravity.n * num > VISIBLE_HEIGHT * den
         THEN RowsPerTick(VISIBLE_HEIGHT)
         ELSE RowsPerTick(AsU8((gravity.n * num) \div den))

\* self.gravity * rhs for a whole right-hand side rhs >= 1.
GravityMul(gravity, rhs) == Mul(gravity, rhs, 1)

(***************************************************************************)
(* base.rs: lock and line clear on the playfield.                          *)
(***************************************************************************)
\* BaseEngine::lock: the playfield with the piece's blocks set.
lock(field, piece) == field \cup PieceCells(piece)

RowIsFull(field, row) == \A col \in 1..WIDTH : IsBlock(field, row, col)

\* contains_full_rows starting its scan at row 2.
contains_full_rows_above_floor(field) ==
    \E row \in 2..TOTAL_HEIGHT : RowIsFull(field, row)

\* BaseEngine::contains_full_rows.
contains_full_rows(field) == \E row \in 1..TOTAL_HEIGHT : RowIsFull(field, row)

\* The list non_full_rows of clear_rows, in increasing row order.
RECURSIVE NonFullRows(_, _)
NonFullRows(field, row) ==
    IF row > TOTAL_HEIGHT THEN <<>>
    ELSE IF RowIsFull(field, row) THEN NonFullRows(field, row + 1)
    ELSE <<row>> \o NonFullRows(field, row + 1)

\* BaseEngine::clear_rows: the playfield afterwards and the number returned.
\* The last loop runs over current_row..TOTAL_HEIGHT, which excludes row
\* TOTAL_HEIGHT itself.
clear_rows(field) ==
    LET Compact(non_full_rows) ==
            IF Len(non_full_rows) = TOTAL_HEIGHT
            THEN [playfield |-> field, n_rows |-> 0]
            ELSE [playfield |->
                      {<<i, col>> \in (1..Len(non_full_rows)) \X (1..WIDTH) :
                          IsBlock(field, non_full_rows[i], col)}
                      \cup {c \in field : c[1] >= TOTAL_HEIGHT},
                  n_rows |-> TOTAL_HEIGHT - Len(non_full_rows)]
    IN  Let(Compact, NonFullRows(field, 1))

(***************************************************************************)
(* base.rs: actions and input processing.                                  *)
(***************************************************************************)
ALL_ACTIONS ==
    <<"MoveLeft", "MoveRight", "RotateClockwise", "RotateCounterClockwise",
      "SoftDrop", "HardDrop", "Hold">>

Action == {ALL_ACTIONS[i] : i \in 1..Len(ALL_ACTIONS)}

\* The durations after the first loop of process_input alone: MoveRight
\* keeps counting while MoveLeft is held.
UpdatedInputsNoPriority(tick_inputs, inputs) ==
    [a \in Action |-> IF a \in tick_inputs THEN inputs[a] + 1 ELSE 0]

\* The durations after the first loop of process_input (lines 312-327) and
\* the left-over-right rule (lines 333-337).
UpdatedInputs(tick_inputs, inputs) ==
    LET LeftFirst(counted) ==
            IF counted["MoveLeft"] > 0
            THEN [counted EXCEPT !["MoveRight"] = 0]
            ELSE counted
    IN  Let(LeftFirst, [a \in Action |-> IF a \in tick_inputs THEN inputs[a] + 1 ELSE 0])

\* IsValidAction with the moves repeating every AUTO_REPEAT_RATE ticks from
\* the press on, without the longer first delay.
IsValidActionNoDelay(action, duration) ==
    IF action \in {"Hold", "RotateClockwise", "RotateCounterClockwise", "HardDrop"}
    THEN duration = 1
    ELSE IF action = "SoftDrop"
    THEN duration >= 1
    ELSE duration >= 1 /\ (duration - 1) % AUTO_REPEAT_RATE = 0

\* The test of the second loop of process_input (lines 341-368).
IsValidAction(action, duration) ==
    IF action \in {"Hold", "RotateClockwise", "RotateCounterClockwise", "HardDrop"}
    THEN duration = 1
    ELSE IF action = "SoftDrop"
    THEN duration >= 1
    ELSE \/ duration = 1
         \/ duration = AUTO_REPEAT_DELAY
         \/ (duration > AUTO_REPEAT_DELAY
             /\ (duration - AUTO_REPEAT_DELAY) % AUTO_REPEAT_RATE = 0)

\* input_action with a second call for a pending action withdrawing it.
input_action_toggle(tick_inputs, action) ==
    IF action \in tick_inputs THEN tick_inputs \ {action} ELSE tick_inputs \cup {action}

\* BaseEngine::input_action: the pending set after the call.
input_action(tick_inputs, action) == tick_inputs \cup {action}

\* BaseEngine::process_input: the new durations and the set it returns.
process_input(tick_inputs, inputs) ==
    LET Valid(updated) ==
            [current_inputs |-> updated,
             actions |-> {a \in Action : IsValidAction(a, updated[a])}]
    IN  Let(Valid, UpdatedInputs(tick_inputs, inputs))

(***************************************************************************)
(* base.rs: the tetromino generators.  A generator is a record; next()     *)
(* gives the set of its possible results [piece, generator].               *)
(***************************************************************************)
\* The results of the shuffle in BagGenerator::new_bag that the model draws
\* from; the shuffle can give every permutation of the seven pieces.
Shuffles ==
    {<<"I", "T", "O", "S", "Z", "J", "L">>,
     <<"T", "L", "J", "Z", "S", "O", "I">>}

\* A BagGenerator whose bag holds the pieces s.
Bag(s) == [kind |-> "Bag", bag |-> s]

\* BagGenerator::new.
BagGeneratorNew == {Bag(s) : s \in Shuffles}

\* BagGenerator::next refilling the bag when one piece is left in it.
GeneratorNextEarlyRefill(generator) ==
    IF Len(generator.bag) <= 1
    THEN {[piece |-> Head(s), generator |-> Bag(Tail(s))] : s \in Shuffles}
    ELSE {[piece |-> Head(generator.bag), generator |-> Bag(Tail(generator.bag))]}

\* BagGenerator::next: the piece drawn and the generator afterwards.
GeneratorNext(generator) ==
    IF generator.bag = <<>>
    THEN {[piece |-> Head(s), generator |-> Bag(Tail(s))] : s \in Shuffles}
    ELSE {[piece |-> Head(generator.bag), generator |-> Bag(Tail(generator.bag))]}

(***************************************************************************)
(***************************************************************************)
(* base.rs: the engine's operations, on a record e of the engine's fields  *)
(* (and `observed`, the observer calls made so far in this tick, and       *)
(* `aborted`, whether a panic has ended the program).  `draw` is the       *)
(* result of tetromino_generator.next(), used where the code calls it.     *)
(***************************************************************************)
Spawn == [tag |-> "Spawn", n |-> 0]

Falling(n) == [tag |-> "Falling", n |-> n]

Lock(n) == [tag |-> "Lock", n |-> n]

LineClear(n) == [tag |-> "LineClear", n |-> n]

TopOut == [tag |-> "TopOut", n |-> 0]

NoPiece == "NoPiece"

Notify(e, event, arg) ==
    [e EXCEPT !.observed = Append(e.observed, [event |-> event, arg |-> arg])]

\* next_piece putting the new piece at the front of the queue.
next_piece_push_front(e, draw) ==
    [e EXCEPT !.current_piece = CurrentPieceNew(Head(e.next_pieces)),
              !.next_pieces = <<draw.piece>> \o Tail(e.next_pieces),
              !.tetromino_generator = draw.generator,
              !.is_hold_available = TRUE]

\* BaseEngine::next_piece.
next_piece(e, draw) ==
    [e EXCEPT !.current_piece = CurrentPieceNew(Head(e.next_pieces)),
              !.next_pieces = Append(Tail(e.next_pieces), draw.piece),
              !.tetromino_generator = draw.generator,
              !.is_hold_available = TRUE]

\* BaseEngine::hold_piece (the method; hold_piece below is the field).
HoldCurrentPiece(e, draw) ==
    [(IF e.hold_piece # NoPiece
      THEN [e EXCEPT !.current_piece = CurrentPieceNew(e.hold_piece)]
      ELSE next_piece(e, draw))
     EXCEPT !.hold_piece = e.current_piece.shape]

\* apply_hold without the test of is_hold_available.
apply_hold_always(e, actions, draw) ==
    IF "Hold" \in actions
    THEN [engine |-> [HoldCurrentPiece(e, draw) EXCEPT !.is_hold_available = FALSE],
          applied |-> TRUE]
    ELSE [engine |-> e, applied |-> FALSE]

\* BaseEngine::apply_hold.
apply_hold(e, actions, draw) ==
    IF "Hold" \in actions /\ e.is_hold_available
    THEN [engine |-> [HoldCurrentPiece(e, draw) EXCEPT !.is_hold_available = FALSE],
          applied |-> TRUE]
    ELSE [engine |-> e, applied |-> FALSE]

\* MoveBy leaving the spin marker as it is.
MoveByKeepingSpin(e, col_offset, action) ==
    IF move_piece(e.playfield, e.current_piece, col_offset) = 1
    THEN [engine |-> [e EXCEPT !.current_piece.col = e.current_piece.col + col_offset],
          applied |-> {action}]
    ELSE [engine |-> e, applied |-> {}]

\* The piece moved by col_offset columns, with the spin marker reset when the
\* move succeeded (the two arms of apply_piece_move).
MoveBy(e, col_offset, action) ==
    IF move_piece(e.playfield, e.current_piece, col_offset) = 1
    THEN [engine |-> [e EXCEPT !.current_piece.col = e.current_piece.col + col_offset,
                               !.current_t_spin = "None"],
          applied |-> {action}]
    ELSE [engine |-> e, applied |-> {}]

\* BaseEngine::apply_piece_move.
apply_piece_move(e, actions) ==
    IF "MoveLeft" \in actions THEN MoveBy(e, -1, "MoveLeft")
    ELSE IF "MoveRight" \in actions THEN MoveBy(e, 1, "MoveRight")
    ELSE [engine |-> e, applied |-> {}]

RotateBy(e, clockwise, action) ==
    LET Applied(res) ==
            [engine |-> res.engine, applied |-> IF res.rotated THEN {action} ELSE {}]
    IN  Let(Applied, rotate_piece(e, clockwise))

\* BaseEngine::apply_piece_rotation.
apply_piece_rotation(e, actions) ==
    IF "RotateClockwise" \in actions THEN RotateBy(e, TRUE, "RotateClockwise")
    ELSE IF "RotateCounterClockwise" \in actions
    THEN RotateBy(e, FALSE, "RotateCounterClockwise")
    ELSE [engine |-> e, applied |-> {}]

\* BaseEngine::apply_hard_drop.
apply_hard_drop(e, actions) ==
    IF "HardDrop" \in actions
    THEN LET Dropped(rows) ==
                 [engine |->
                      Notify([e EXCEPT !.current_piece.row = e.current_piece.row - rows,
                                       !.current_t_spin =
                                           IF rows > 0 THEN "None" ELSE e.current_t_spin],
                             "on_hard_drop", rows),
                  applied |-> {"HardDrop"}]
         IN  Let(Dropped, drop(e.playfield, e.current_piece, TOTAL_HEIGHT))
    ELSE [engine |-> e, applied |-> {}]

\* apply_actions with the horizontal move still applied after a hold.
apply_actions_after_hold(e, actions, draw) ==
    LET Merge(held, moved) ==
            [engine |-> moved.engine,
             applied |-> (IF held.applied THEN {"Hold"} ELSE {}) \cup moved.applied]
        AfterHold(held) == Merge(held, apply_piece_move(held.engine, actions))
    IN  Let(AfterHold, apply_hold(e, actions, draw))

\* BaseEngine::apply_actions.
apply_actions(e, actions, draw) ==
    LET AfterMove(moved) ==
            LET AfterRotation(rotated) ==
                    LET AfterDrop(dropped) ==
                            [engine |-> dropped.engine,
                             applied |-> moved.applied \cup rotated.applied
                                         \cup dropped.applied]
                    IN  Let(AfterDrop, apply_hard_drop(rotated.engine, actions))
            IN  Let(AfterRotation, apply_piece_rotation(moved.engine, actions))
        AfterHold(held) ==
            IF held.applied
            THEN [engine |-> held.engine, applied |-> {"Hold"}]
            ELSE Let(AfterMove, apply_piece_move(e, actions))
    IN  Let(AfterHold, apply_hold(e, actions, draw))

\* The piece dropped by up to n_rows rows; `rows` is what drop returns.
DropBy(e, n_rows) ==
    LET Dropped(rows) ==
            [engine |-> [e EXCEPT !.current_piece.row = e.current_piece.row - rows],
             rows |-> rows]
    IN  Let(Dropped, drop(e.playfield, e.current_piece, n_rows))

\* apply_gravity with the TicksPerRow counter compared strictly: the row is
\* dropped one tick later.
apply_gravity_late(e, actions) ==
    LET soft_drop == "SoftDrop" \in actions
        OneRow(d) ==
            IF d.rows = 1
            THEN [engine |-> IF soft_drop THEN Notify(d.engine, "on_soft_drop", 1)
                             ELSE d.engine,
                  dropped |-> TRUE]
            ELSE [engine |-> d.engine, dropped |-> FALSE]
        Rows(d) ==
            IF d.rows > 1
            THEN [engine |-> IF soft_drop THEN Notify(d.engine, "on_soft_drop", d.rows)
                             ELSE d.engine,
                  dropped |-> TRUE]
            ELSE [engine |-> d.engine, dropped |-> FALSE]
        Fall(gravity) ==
            IF gravity.kind = "TicksPerRow"
            THEN IF e.state.n > gravity.n
                 THEN Let(OneRow, DropBy(e, 1))
                 ELSE [engine |-> e, dropped |-> FALSE]
            ELSE Let(Rows, DropBy(e, gravity.n))
    IN  Let(Fall, IF soft_drop THEN GravityMul(e.gravity, SOFT_DROP_FACTOR) ELSE e.gravity)

\* BaseEngine::apply_gravity, called in state Falling(n).
apply_gravity(e, actions) ==
    LET soft_drop == "SoftDrop" \in actions
        OneRow(d) ==
            IF d.rows = 1
            THEN [engine |-> IF soft_drop THEN Notify(d.engine, "on_soft_drop", 1)
                             ELSE d.engine,
                  dropped |-> TRUE]
            ELSE [engine |-> d.engine, dropped |-> FALSE]
        Rows(d) ==
            IF d.rows > 1
            THEN [engine |-> IF soft_drop THEN Notify(d.engine, "on_soft_drop", d.rows)
                             ELSE d.engine,
                  dropped |-> TRUE]
            ELSE [engine |-> d.engine, dropped |-> FALSE]
        Fall(gravity) ==
            IF gravity.kind = "TicksPerRow"
            THEN IF e.state.n >= gravity.n
                 THEN Let(OneRow, DropBy(e, 1))
                 ELSE [engine |-> e, dropped |-> FALSE]
            ELSE Let(Rows, DropBy(e, gravity.n))
    IN  Let(Fall, IF soft_drop THEN GravityMul(e.gravity, SOFT_DROP_FACTOR) ELSE e.gravity)

\* apply_lock with the spin marker reset before the observers are notified.
apply_lock_reset_first(e, draw) ==
    LET Drawn(reset) ==
            IF contains_full_rows(reset.playfield)
            THEN [next_piece(reset, draw) EXCEPT !.state = LineClear(1)]
            ELSE [next_piece(reset, draw) EXCEPT !.state = Spawn]
    IN  Let(Drawn, Notify([e EXCEPT !.playfield = lock(e.playfield, e.current_piece),
                                    !.current_t_spin = "None"],
                          "on_lock", "None"))

\* apply_lock leaving the notification of a placement that fills a row to
\* the line clear: on_lock is notified only when no row is full.
apply_lock_silent_on_clear(e, draw) ==
    LET Drawn(locked) ==
            IF contains_full_rows(locked.playfield)
            THEN [next_piece(locked, draw) EXCEPT !.state = LineClear(1),
                                                  !.current_t_spin = "None"]
            ELSE [next_piece(Notify(locked, "on_lock", TSpinFrom(e.current_t_spin)), draw)
                  EXCEPT !.state = Spawn, !.current_t_spin = "None"]
    IN  Let(Drawn, [e EXCEPT !.playfield = lock(e.playfield, e.current_piece)])

\* BaseEngine::apply_lock.
apply_lock(e, draw) ==
    LET Drawn(reset) ==
            IF contains_full_rows(reset.playfield)
            THEN [next_piece(reset, draw) EXCEPT !.state = LineClear(1)]
            ELSE [next_piece(reset, draw) EXCEPT !.state = Spawn]
    IN  Let(Drawn, [Notify([e EXCEPT !.playfield = lock(e.playfield, e.current_piece)],
                           "on_lock", TSpinFrom(e.current_t_spin))
                    EXCEPT !.current_t_spin = "None"])

\* tick_spawn without the collision test: the piece always starts falling.
tick_spawn_unchecked(e) ==
    [e EXCEPT !.state = Falling(1), !.current_t_spin = "None"]

\* BaseEngine::tick_spawn.
tick_spawn(e) ==
    [e EXCEPT !.state = IF has_collision_with_piece(e.playfield, e.current_piece)
                        THEN TopOut
                        ELSE Falling(1),
              !.current_t_spin = "None"]

\* BaseEngine::tick_falling; the result carries applied_actions.
tick_falling(e, actions, draw) ==
    LET AfterGravity(g) ==
            [g.engine EXCEPT !.state =
                IF is_in_lock_position(g.engine.playfield, g.engine.current_piece)
                THEN Lock(1)
                ELSE IF g.dropped THEN Falling(1)
                ELSE Falling(e.state.n + 1)]
        AfterActions(acted) ==
            [engine |->
                 IF "HardDrop" \in acted.applied
                 THEN apply_lock(acted.engine, draw)
                 ELSE IF "Hold" \in acted.applied
                 THEN [acted.engine EXCEPT !.state = Falling(1)]
                 ELSE Let(AfterGravity, apply_gravity(acted.engine, actions)),
             applied |-> acted.applied]
    IN  Let(AfterActions, apply_actions(e, actions, draw))

\* The resting test that follows a successful move or rotation in tick_lock
\* with the lock counter left running: the delay is not restarted.
retest_keeps_counting(e) ==
    [e EXCEPT !.state = IF is_in_lock_position(e.playfield, e.current_piece)
                        THEN Lock(e.state.n + 1)
                        ELSE Falling(1)]

\* The resting test with its answer ignored: the piece stays in Lock.
retest_always_resting(e) == [e EXCEPT !.state = Lock(1)]

\* tick_lock after a successful move or rotation: resting is tested again.
retest_lock_position(e) ==
    [e EXCEPT !.state = IF is_in_lock_position(e.playfield, e.current_piece)
                        THEN Lock(1)
                        ELSE Falling(1)]

\* The State::Lock(n) arm with the delay restarted by any active action,
\* applied or not.
tick_lock_actions_restarting(e, actions, draw) ==
    LET AfterActions(acted) ==
            [engine |->
                 IF "Hold" \in acted.applied
                 THEN [acted.engine EXCEPT !.state = Falling(1)]
                 ELSE IF "HardDrop" \in acted.applied
                 THEN apply_lock(acted.engine, draw)
                 ELSE IF acted.applied \cap {"MoveLeft", "MoveRight", "RotateClockwise",
                                              "RotateCounterClockwise"} # {}
                 THEN retest_lock_position(acted.engine)
                 ELSE [acted.engine EXCEPT !.state =
                           IF actions # {} THEN Lock(1) ELSE Lock(e.state.n + 1)],
             applied |-> acted.applied]
    IN  Let(AfterActions, apply_actions(e, actions, draw))

\* The State::Lock(n) arm of tick_lock; the result carries applied_actions.
tick_lock_actions(e, actions, draw) ==
    LET AfterActions(acted) ==
            [engine |->
                 IF "Hold" \in acted.applied
                 THEN [acted.engine EXCEPT !.state = Falling(1)]
                 ELSE IF "HardDrop" \in acted.applied
                 THEN apply_lock(acted.engine, draw)
                 ELSE IF acted.applied \cap {"MoveLeft", "MoveRight", "RotateClockwise",
                                              "RotateCounterClockwise"} # {}
                 THEN retest_lock_position(acted.engine)
                 ELSE [acted.engine EXCEPT !.state = Lock(e.state.n + 1)],
             applied |-> acted.applied]
    IN  Let(AfterActions, apply_actions(e, actions, draw))

\* tick_lock with a hold that is active and available taken before the
\* threshold is looked at.
tick_lock_hold_first(e, actions, draw) ==
    IF e.state.n = LOCK_DELAY /\ ~("Hold" \in actions /\ e.is_hold_available)
    THEN [engine |-> apply_lock(e, draw), applied |-> {}]
    ELSE tick_lock_actions(e, actions, draw)

\* tick_lock restarting the delay at the threshold instead of locking.
tick_lock_waiting(e, actions, draw) ==
    IF e.state.n = LOCK_DELAY
    THEN [engine |-> [e EXCEPT !.state = Lock(1)], applied |-> {}]
    ELSE tick_lock_actions(e, actions, draw)

\* BaseEngine::tick_lock; the result carries applied_actions.
tick_lock(e, actions, draw) ==
    IF e.state.n = LOCK_DELAY
    THEN [engine |-> apply_lock(e, draw), applied |-> {}]
    ELSE tick_lock_actions(e, actions, draw)

\* tick_line_clear compacting one tick late: the counter passes the
\* threshold.
tick_line_clear_overrun(e, draw) ==
    LET Cleared(cleared) ==
            [next_piece(Notify([e EXCEPT !.playfield = cleared.playfield],
                               "on_line_clear", cleared.n_rows), draw)
             EXCEPT !.state = Spawn]
    IN  IF e.state.n > LINE_CLEAR_DELAY
        THEN Let(Cleared, clear_rows(e.playfield))
        ELSE [e EXCEPT !.state = LineClear(e.state.n + 1)]

\* BaseEngine::tick_line_clear.
tick_line_clear(e, draw) ==
    LET Cleared(cleared) ==
            [next_piece(Notify([e EXCEPT !.playfield = cleared.playfield],
                               "on_line_clear", cleared.n_rows), draw)
             EXCEPT !.state = Spawn]
    IN  IF e.state.n = LINE_CLEAR_DELAY
        THEN Let(Cleared, clear_rows(e.playfield))
        ELSE [e EXCEPT !.state = LineClear(e.state.n + 1)]

\* tick with a topped-out engine still processing its actions: TopOut is no
\* longer a dead end.
tick_after_top_out(e, actions, draw) ==
    CASE e.state.tag = "Spawn" -> [engine |-> tick_spawn(e), applied |-> {}]
      [] e.state.tag \in {"Falling", "TopOut"} -> tick_falling(e, actions, draw)
      [] e.state.tag = "Lock" -> tick_lock(e, actions, draw)
      [] e.state.tag = "LineClear" -> [engine |-> tick_line_clear(e, draw), applied |-> {}]

\* tick with the pause of LineClear taking a hold: below the threshold an
\* active hold is applied while the counter goes on.
tick_line_clear_takes_hold(e, actions, draw) ==
    CASE e.state.tag = "Spawn" -> [engine |-> tick_spawn(e), applied |-> {}]
      [] e.state.tag = "Falling" -> tick_falling(e, actions, draw)
      [] e.state.tag = "Lock" -> tick_lock(e, actions, draw)
      [] e.state.tag = "LineClear" ->
             IF e.state.n < LINE_CLEAR_DELAY
             THEN [engine |-> [apply_hold(e, actions, draw).engine
                               EXCEPT !.state = LineClear(e.state.n + 1)],
                   applied |-> {}]
             ELSE [engine |-> tick_line_clear(e, draw), applied |-> {}]
      [] e.state.tag = "TopOut" -> [engine |-> e, applied |-> {}]

\* The match of BaseEngine::tick on self.state, after process_input.
tick(e, actions, draw) ==
    CASE e.state.tag = "Spawn" -> [engine |-> tick_spawn(e), applied |-> {}]
      [] e.state.tag = "Falling" -> tick_falling(e, actions, draw)
      [] e.state.tag = "Lock" -> tick_lock(e, actions, draw)
      [] e.state.tag = "LineClear" -> [engine |-> tick_line_clear(e, draw), applied |-> {}]
      [] e.state.tag = "TopOut" -> [engine |-> e, applied |-> {}]

(***************************************************************************)
(* Construction.                                                           *)
(***************************************************************************)
\* n successive results of generator.next(): the pieces and the generator
\* afterwards.
RECURSIVE DrawN(_, _)
DrawN(generator, n) ==
    IF n = 0 THEN {[pieces |-> <<>>, generator |-> generator]}
    ELSE UNION {{[pieces |-> <<d.piece>> \o r.pieces, generator |-> r.generator] :
                    r \in DrawN(d.generator, n - 1)} :
                d \in GeneratorNext(generator)}

NEXT_PIECES == 5

\* BaseEngine::with_tetromino_generator: the engines it can build.
with_tetromino_generator(generator) ==
    {[playfield |-> PlayfieldNew,
      current_piece |-> CurrentPieceNew(Head(d.pieces)),
      tetromino_generator |-> d.generator,
      hold_piece |-> NoPiece,
      is_hold_available |-> TRUE,
      gravity |-> TicksPerRow(DEFAULT_TICKS_PER_ROW),
      next_pieces |-> Tail(d.pieces),
      state |-> Falling(0),
      current_t_spin |-> "None",
      observed |-> <<>>,
      aborted |-> FALSE] : d \in DrawN(generator, 1 + NEXT_PIECES)}

\* BaseEngine::set_gravity.
set_gravity(e, gravity) == [e EXCEPT !.gravity = gravity]

(***************************************************************************)
(* The caller: input schedules.  A schedule is the sequence of sets of     *)
(* actions the caller signals before each of its first ticks (its          *)
(* opening); afterwards it signals nothing, repeats the opening (loop), or *)
(* plays freely within the bounds MaxPresses and MaxLocks (free).          *)
(***************************************************************************)
RECURSIVE Rep(_, _)
Rep(seq, n) == IF n = 0 THEN <<>> ELSE seq \o Rep(seq, n - 1)

\* One action pressed for one tick, then released for one tick.
Tap(a) == <<{a}, {}>>

\* k taps of a move, the last one together with a hard drop, then the tick
\* that spawns the next piece.
Place(move, k) == Rep(Tap(move), k - 1) \o <<{move, "HardDrop"}, {}>>

FastGravity == RowsPerTick(VISIBLE_HEIGHT)

\* A new engine with the default gravity, never given any input.
ScenarioIdle ==
    [generators |-> {Bag(<<"I", "T", "O", "S", "Z", "J", "L">>)},
     gravity |-> TicksPerRow(DEFAULT_TICKS_PER_ROW),
     opening |-> <<>>, loop |-> FALSE, free |-> FALSE]

\* A new engine with the bag generator, played freely from the first tick.
ScenarioFresh ==
    [generators |-> BagGeneratorNew,
     gravity |-> FastGravity,
     opening |-> <<>>, loop |-> FALSE, free |-> TRUE]

\* Every piece hard-dropped where it spawns, StackDrops times: the stack in
\* the middle columns grows into the spawn rows; then a hold and a hard drop
\* signalled together, and free play.
ScenarioStack ==
    [generators |-> {Bag(<<"I", "T", "O", "S", "Z", "J", "L">>)},
     gravity |-> FastGravity,
     opening |-> Rep(Tap("HardDrop"), StackDrops) \o <<{"Hold", "HardDrop"}>>,
     loop |-> FALSE, free |-> TRUE]

\* An I piece laid in columns 1-4 and a J piece in columns 5-7 of row 1, an
\* L piece moved to columns 8-10, where it rests on the floor and fills
\* row 1; then free play.
ScenarioGap ==
    [generators |-> {Bag(<<"I", "J", "L", "O", "S", "Z", "T">>)},
     gravity |-> FastGravity,
     opening |-> Place("MoveLeft", 3) \o Place("MoveRight", 1)
                 \o Rep(Tap("MoveRight"), 4),
     loop |-> FALSE, free |-> TRUE]

\* An I piece laid in columns 2-5 of row 1, a T piece resting on it moved
\* to the left wall, then free play: a clockwise rotation kicks the T into
\* column 1.
ScenarioTSpin ==
    [generators |-> {Bag(<<"I", "T", "O", "S", "Z", "J", "L">>)},
     gravity |-> FastGravity,
     opening |-> Place("MoveLeft", 2) \o Rep(Tap("MoveLeft"), 3),
     loop |-> FALSE, free |-> TRUE]

\* A slow gravity (one row every two ticks): the first piece is moved and
\* hard-dropped while it falls; then free play.
ScenarioSlow ==
    [generators |-> {Bag(<<"L", "I", "T", "O", "S", "Z", "J">>)},
     gravity |-> TicksPerRow(2),
     opening |-> <<{}, {"MoveLeft", "HardDrop"}, {}>>, loop |-> FALSE, free |-> TRUE]

\* The first piece left to rest until the lock counter reaches LOCK_DELAY,
\* then a hold, a move and a rotation signalled together; then free play.
ScenarioWait ==
    [generators |-> {Bag(<<"T", "L", "J", "Z", "S", "O", "I">>)},
     gravity |-> FastGravity,
     opening |-> Rep(<<{}>>, LOCK_DELAY) \o <<{"Hold", "MoveLeft", "RotateClockwise"}>>,
     loop |-> FALSE, free |-> TRUE]

\* The first piece falls to the floor and is held together with a move, a
\* rotation and a hard drop; a second hold is signalled for the piece that
\* replaced it; that piece is hard-dropped and the next one is held; then
\* free play.
ScenarioHold ==
    [generators |-> {Bag(<<"I", "T", "O", "S", "Z", "J", "L">>)},
     gravity |-> FastGravity,
     opening |-> <<{}, {"Hold", "MoveLeft", "RotateClockwise", "HardDrop"}, {},
                   {"Hold"}, {"HardDrop"}, {}, {"Hold"}>>,
     loop |-> FALSE, free |-> TRUE]

\* An O piece hard-dropped where it spawns, an I piece resting on it for
\* three ticks and then moved two columns to the left, where it still rests
\* on the O; then free play: one more move takes it off the O.
ScenarioEdge ==
    [generators |-> {Bag(<<"O", "I", "T", "S", "Z", "J", "L">>)},
     gravity |-> FastGravity,
     opening |-> <<{"HardDrop"}, {}, {}, {}, {}>> \o Rep(Tap("MoveLeft"), 2),
     loop |-> FALSE, free |-> TRUE]

\* The keys of a move to the right, a rotation, a soft drop and a hold kept
\* down for 14 ticks; then those of both moves and the soft drop for 20
\* ticks; then the move to the right alone for two ticks; then nothing.
ScenarioRepeat ==
    [generators |-> {Bag(<<"L", "J", "T", "O", "S", "Z", "I">>)},
     gravity |-> FastGravity,
     opening |-> Rep(<<{"MoveRight", "RotateClockwise", "SoftDrop", "Hold"}>>, 14)
                 \o Rep(<<{"MoveLeft", "MoveRight", "SoftDrop"}>>, 20)
                 \o Rep(<<{"MoveRight"}>>, 2),
     loop |-> FALSE, free |-> FALSE]

\* Under the default gravity: the first piece, an O, is held; the next six
\* pieces are rotated and hard-dropped on columns 6 and 7, which reach rows
\* 19 and 18; an I and a T are laid at the left wall; the next O is laid on
\* the tower, filling rows 20 and 21.  An S spawns beside it; the caller
\* holds it, which brings back the first O, and then asks for a rotation.
ScenarioTower ==
    [generators |-> {Bag(<<"O", "I", "J", "L", "T", "Z", "S">>)},
     gravity |-> TicksPerRow(DEFAULT_TICKS_PER_ROW),
     opening |-> <<{"Hold"}, {"RotateClockwise", "HardDrop"}, {}>>
                 \o Rep(<<{"MoveRight", "RotateClockwise", "HardDrop"}, {}>>, 5)
                 \o Place("MoveLeft", 3) \o Place("MoveLeft", 3)
                 \o <<{"MoveRight", "HardDrop"}, {}>>
                 \o <<{"Hold"}, {"RotateClockwise"}>>,
     loop |-> FALSE, free |-> FALSE]

\* Under the default gravity: an I is stood in column 1 and a J, turned
\* upside down, is laid on top of it, so that its end hangs over column 3
\* at row 4.  A T, nose down, is soft-dropped to rows 2 and 3, moved left
\* under the J and turned counter-clockwise: it is kicked one column to
\* the left, between the I and the hanging block.  Then it is soft-dropped
\* one more row and hard-dropped where it lies.
ScenarioOverhang ==
    [generators |-> {Bag(<<"I", "J", "T", "O", "S", "Z", "L">>)},
     gravity |-> TicksPerRow(DEFAULT_TICKS_PER_ROW),
     opening |-> Tap("RotateClockwise") \o Place("MoveLeft", 5)
                 \o Tap("RotateClockwise") \o Tap("RotateClockwise")
                 \o Place("MoveLeft", 3)
                 \o Tap("RotateClockwise") \o Tap("RotateClockwise")
                 \o Rep(<<{"SoftDrop"}>>, 35)
                 \o Tap("MoveLeft") \o Tap("MoveLeft")
                 \o <<{"RotateCounterClockwise"}, {"SoftDrop"}, {"HardDrop"}, {}>>,
     loop |-> FALSE, free |-> FALSE]

\* The caller that stalls: it signals a move to the left and a move to the
\* right on alternate ticks, forever, under the default gravity.
ScenarioStall ==
    [generators |-> BagGeneratorNew,
     gravity |-> TicksPerRow(DEFAULT_TICKS_PER_ROW),
     opening |-> <<{"MoveLeft"}, {"MoveRight"}>>, loop |-> TRUE, free |-> FALSE]

\* The gravity of level 7 of the single-player table (one row every eleven
\* ticks), under which a soft drop falls one row on every tick.  An S is
\* soft-dropped for three ticks and hard-dropped where it spawned; the I
\* that follows is held; the T that replaces it is moved right, soft-dropped
\* to the floor and moved left until its left arm lies under the S: there a
\* clockwise rotation finds no position.
ScenarioSoft ==
    [generators |-> {Bag(<<"S", "I", "T", "O", "Z", "J", "L">>)},
     gravity |-> TicksPerRow(11),
     opening |-> <<{}, {"SoftDrop"}, {"SoftDrop"}, {"SoftDrop"}, {}, {"HardDrop"}, {}>>
                 \o <<{"Hold"}, {}>> \o Rep(Tap("MoveRight"), 3)
                 \o Rep(<<{"SoftDrop"}>>, 19) \o <<{}>> \o Tap("MoveLeft")
                 \o <<{"RotateClockwise"}, {}, {"HardDrop"}, {}>>,
     loop |-> FALSE, free |-> FALSE]

\* The opening of ScenarioTSpin, then the clockwise rotation that kicks the
\* T into column 1, and a hold on the next tick: the O that follows is left
\* to fall and to lock by itself.
ScenarioSwap ==
    [generators |-> {Bag(<<"I", "T", "O", "S", "Z", "J", "L">>)},
     gravity |-> FastGravity,
     opening |-> Place("MoveLeft", 2) \o Rep(Tap("MoveLeft"), 3)
                 \o <<{"RotateClockwise"}, {"Hold"}>>,
     loop |-> FALSE, free |-> FALSE]

\* One row every two ticks.  An O, an I, a T, a J and a Z are laid so that
\* rows 1 and 2 are filled but for columns 6 and 10: an S stood on end
\* fills column 6 of row 2, and an L stood in column 10 completes both rows
\* at once.
ScenarioDouble ==
    [generators |-> {Bag(<<"O", "I", "T", "J", "Z", "S", "L">>)},
     gravity |-> TicksPerRow(2),
     opening |-> Place("MoveLeft", 4) \o Place("MoveLeft", 1) \o Place("MoveLeft", 1)
                 \o Place("MoveRight", 3) \o Place("MoveRight", 3)
                 \o <<{"RotateClockwise", "HardDrop"}, {}>>
                 \o Tap("RotateCounterClockwise") \o Place("MoveRight", 5),
     loop |-> FALSE, free |-> FALSE]

\* The O is held first.  Six pieces fill the two bottom rows up to the two
\* columns under the spawn position; the T of the next bag is kicked
\* against the left wall on top of the stack and then held, and the O that
\* replaces it falls into the gap without any further input.
ScenarioCarry ==
    [generators |-> {Bag(<<"O", "I", "L", "Z", "J", "S", "T">>)},
     gravity |-> TicksPerRow(2),
     opening |-> <<{"Hold"}, {}>>
                 \o Place("MoveLeft", 3) \o Place("MoveLeft", 2)
                 \o Tap("RotateClockwise") \o Place("MoveLeft", 4)
                 \o Place("MoveRight", 3)
                 \o Tap("RotateClockwise") \o Place("MoveRight", 2)
                 \o Tap("RotateCounterClockwise") \o Place("MoveRight", 5)
                 \o Rep(Tap("MoveLeft"), 3) \o Rep(<<{"SoftDrop"}>>, 3)
                 \o <<{}, {"RotateClockwise"}, {"Hold"}>>,
     loop |-> FALSE, free |-> FALSE]

Scenarios ==
    {ScenarioIdle, ScenarioFresh, ScenarioStack, ScenarioGap, ScenarioTSpin,
     ScenarioSlow, ScenarioWait, ScenarioHold, ScenarioEdge, ScenarioRepeat,
     ScenarioTower, ScenarioOverhang, ScenarioSoft,
     ScenarioSwap, ScenarioDouble, ScenarioCarry}

(***************************************************************************)
(* The state.                                                              *)
(***************************************************************************)
VARIABLES
    playfield,            \* BaseEngine.playfield: the set of Block cells
    current_piece,        \* BaseEngine.current_piece
    tetromino_generator,  \* BaseEngine.tetromino_generator
    hold_piece,           \* BaseEngine.hold_piece, NoPiece for Option::None
    is_hold_available,    \* BaseEngine.is_hold_available
    current_tick_inputs,  \* BaseEngine.current_tick_inputs
    current_inputs,       \* BaseEngine.current_inputs: action -> duration
    gravity,              \* BaseEngine.gravity
    next_pieces,          \* BaseEngine.next_pieces
    state,                \* BaseEngine.state
    current_t_spin,       \* BaseEngine.current_t_spin
    observed,             \* the observer calls made by the last tick, in order
    dispatched,           \* self.state as the last tick matched on it
    actions,              \* what process_input returned in the last tick
    applied_actions,      \* what apply_actions returned in the last tick
    aborted,              \* a panic has ended the program
    call,                 \* the last method called directly: [op, arg, result,
                          \* from, t_spin], from being <<row, col>> of the piece
                          \* and t_spin the spin marker before the call
    signals,              \* action -> input_action calls since the last tick
    held,                 \* action -> consecutive ticks it was signalled before
    held_right_alone,     \* consecutive ticks with MoveRight signalled and
                          \* MoveLeft not
    last_placement,       \* the last on_lock or on_line_clear call made so far
                          \* and the field after the tick that made it
    drawn,                \* the results of the next() calls made directly on
                          \* the generator since it was created, in order
    schedule,             \* the caller: [todo, loop, free]
    presses,              \* input_action calls made in free play
    locks                 \* pieces locked in free play

engine_vars ==
    <<playfield, current_piece, tetromino_generator, hold_piece, is_hold_available,
      gravity, next_pieces, state, current_t_spin>>

vars ==
    <<playfield, current_piece, tetromino_generator, hold_piece, is_hold_available,
      current_tick_inputs, current_inputs, gravity, next_pieces, state,
      current_t_spin, observed, dispatched, actions, applied_actions,
      aborted, call, signals, held, held_right_alone, last_placement, drawn,
      schedule, presses, locks>>

\* The engine's fields as the record the operations work on.
Engine ==
    [playfield |-> playfield,
     current_piece |-> current_piece,
     tetromino_generator |-> tetromino_generator,
     hold_piece |-> hold_piece,
     is_hold_available |-> is_hold_available,
     gravity |-> gravity,
     next_pieces |-> next_pieces,
     state |-> state,
     current_t_spin |-> current_t_spin,
     observed |-> <<>>,
     aborted |-> aborted]

NoTick == [tag |-> "NoTick", n |-> 0]

NoCall == [event |-> "none", arg |-> 0, field |-> {}]

NoMethod == [op |-> "none", arg |-> 0, result |-> 0, from |-> <<0, 0>>, t_spin |-> "None"]

\* The last on_lock or on_line_clear call of the sequence calls, with the
\* field as the tick that made the call left it, or previous when the
\* sequence has no such call.
RECURSIVE LastPlacement(_, _, _)
LastPlacement(calls, field, previous) ==
    IF calls = <<>> THEN previous
    ELSE IF calls[Len(calls)].event \in {"on_lock", "on_line_clear"}
         THEN [event |-> calls[Len(calls)].event, arg |-> calls[Len(calls)].arg,
               field |-> field]
         ELSE LastPlacement(SubSeq(calls, 1, Len(calls) - 1), field, previous)

\* The state after construction (and the caller's set_gravity), for the
\* scenarios of the set S.
InitOf(S) ==
    \E sc \in S : \E g \in sc.generators :
    \E e0 \in with_tetromino_generator(g) :
    \E e \in {set_gravity(e0, sc.gravity)} :
        /\ playfield = e.playfield
        /\ current_piece = e.current_piece
        /\ tetromino_generator = e.tetromino_generator
        /\ hold_piece = e.hold_piece
        /\ is_hold_available = e.is_hold_available
        /\ current_tick_inputs = {}
        /\ current_inputs = [a \in Action |-> 0]
        /\ gravity = e.gravity
        /\ next_pieces = e.next_pieces
        /\ state = e.state
        /\ current_t_spin = e.current_t_spin
        /\ observed = <<>>
        /\ dispatched = NoTick
        /\ actions = {}
        /\ applied_actions = {}
        /\ aborted = FALSE
        /\ call = NoMethod
        /\ signals = [a \in Action |-> 0]
        /\ held = [a \in Action |-> 0]
        /\ held_right_alone = 0
        /\ last_placement = NoCall
        /\ drawn = <<>>
        /\ schedule = [todo |-> sc.opening, loop |-> sc.loop, free |-> sc.free]
        /\ presses = 0
        /\ locks = 0

Init == InitOf(Scenarios)

(***************************************************************************)
(* The actions.                                                            *)
(***************************************************************************)
Rank(a) == CHOOSE i \in 1..Len(ALL_ACTIONS) : ALL_ACTIONS[i] = a

Scripted == schedule.todo # <<>>

FreePlay == schedule.todo = <<>> /\ schedule.free

\* BaseEngine::input_action (the seven input_* methods of Engine).  The
\* caller signals the actions of one tick in the order of ALL_ACTIONS, each
\* of them up to MaxRepeats times; every set of pending actions is still
\* reached.
InputAction(a) ==
    /\ ~aborted
    /\ \A b \in current_tick_inputs : Rank(b) <= Rank(a)
    /\ signals[a] < MaxRepeats
    /\ IF Scripted THEN a \in Head(schedule.todo)
       ELSE FreePlay /\ presses < MaxPresses
    /\ current_tick_inputs' = input_action(current_tick_inputs, a)
    /\ signals' = [signals EXCEPT ![a] = @ + 1]
    /\ presses' = IF Scripted THEN presses ELSE presses + 1
    /\ UNCHANGED <<engine_vars, current_inputs, observed, dispatched, actions,
                   applied_actions, aborted, call, held, held_right_alone,
                   last_placement, drawn, schedule, locks>>

Signal == \E a \in Action : InputAction(a)

\* BaseEngine::tick.
Tick ==
    /\ ~aborted
    /\ Scripted => current_tick_inputs = Head(schedule.todo)
    /\ (FreePlay /\ state.tag \in {"Falling", "Lock"}) => locks < MaxLocks
    /\ \E draw \in GeneratorNext(tetromino_generator) :
       \E input \in {process_input(current_tick_inputs, current_inputs)} :
       \E r \in {tick(Engine, input.actions, draw)} :
           /\ current_tick_inputs' = {}
           /\ current_inputs' = input.current_inputs
           /\ playfield' = r.engine.playfield
           /\ current_piece' = r.engine.current_piece
           /\ tetromino_generator' = r.engine.tetromino_generator
           /\ hold_piece' = r.engine.hold_piece
           /\ is_hold_available' = r.engine.is_hold_available
           /\ gravity' = r.engine.gravity
           /\ next_pieces' = r.engine.next_pieces
           /\ state' = r.engine.state
           /\ current_t_spin' = r.engine.current_t_spin
           /\ observed' = r.engine.observed
           /\ dispatched' = state
           /\ actions' = input.actions
           /\ applied_actions' = r.applied
           /\ aborted' = r.engine.aborted
           /\ last_placement' = LastPlacement(r.engine.observed, r.engine.playfield,
                                                 last_placement)
           /\ locks' = IF FreePlay /\ playfield' # playfield /\ state.tag # "LineClear"
                       THEN locks + 1 ELSE locks
    /\ schedule' = IF ~Scripted THEN schedule
                   ELSE IF schedule.loop
                   THEN [schedule EXCEPT !.todo = Append(Tail(@), Head(@))]
                   ELSE [schedule EXCEPT !.todo = Tail(@)]
    /\ signals' = [a \in Action |-> 0]
    /\ held' = [a \in Action |-> IF signals[a] > 0 THEN held[a] + 1 ELSE 0]
    /\ held_right_alone' = IF signals["MoveRight"] > 0 /\ signals["MoveLeft"] = 0
                           THEN held_right_alone + 1 ELSE 0
    /\ UNCHANGED <<presses, call, drawn>>

Next == Signal \/ Tick

Spec == Init /\ [][Next]_vars

(***************************************************************************)
(* The methods of BaseEngine called directly, as its unit tests call them, *)
(* on an engine whose field and current piece are drawn from bounded sets: *)
(* one call per behaviour.                                                 *)
(***************************************************************************)
\* Rows 1 to 4 full but for a well in column 5.
FieldWell == (1..4) \X ((1..WIDTH) \ {5})

\* Steps rising to the right: column c is c - 1 high, for c up to 5.
FieldSteps == {c \in (1..4) \X (1..5) : c[1] < c[2]}

\* A slot under an overhang: row 1 open in column 5, row 2 open in columns
\* 4 to 6, and a block in row 3 over column 6.
FieldSlot ==
    ({1} \X ((1..WIDTH) \ {5})) \cup ({2} \X ((1..WIDTH) \ {4, 5, 6}))
    \cup ({3} \X {1, 2, 3, 6})

\* A roof: row 3 filled from column 3 on, nothing below it.
FieldRoof == {3} \X (3..WIDTH)

\* Single blocks on every other row and column, with one left out: a T
\* piece fits between them with three or four of its corners occupied.
FieldDots == ({1, 3, 5} \X {1, 3, 5, 7, 9}) \ {<<3, 5>>}

Fields == {PlayfieldNew, FieldWell, FieldSteps, FieldSlot, FieldRoof, FieldDots}

\* The pieces drawn: near the floor, in and around the field.
LowPieces ==
    [shape : Tetromino, rotation : Rotation, row : (-2)..PieceRows, col : (-2)..WIDTH]

\* Pieces at the ceiling of the field.
CeilingPieces ==
    [shape : Tetromino, rotation : Rotation,
     row : (TOTAL_HEIGHT - 4)..TOTAL_HEIGHT, col : (-2)..WIDTH]

InitPiece ==
    /\ playfield \in Fields
    /\ current_piece \in LowPieces \cup (IF playfield = PlayfieldNew THEN CeilingPieces ELSE {})
    /\ current_t_spin \in (IF current_piece.shape = "T" THEN TSpinInternal
                           ELSE {"None"})
    /\ tetromino_generator = Bag(<<>>)
    /\ hold_piece = NoPiece
    /\ is_hold_available = TRUE
    /\ current_tick_inputs = {}
    /\ current_inputs = [a \in Action |-> 0]
    /\ gravity = TicksPerRow(DEFAULT_TICKS_PER_ROW)
    /\ next_pieces = <<>>
    /\ state = Falling(1)
    /\ observed = <<>>
    /\ dispatched = NoTick
    /\ actions = {}
    /\ applied_actions = {}
    /\ aborted = FALSE
    /\ call = NoMethod
    /\ signals = [a \in Action |-> 0]
    /\ held = [a \in Action |-> 0]
    /\ held_right_alone = 0
    /\ last_placement = NoCall
    /\ drawn = <<>>
    /\ schedule = [todo |-> <<>>, loop |-> FALSE, free |-> FALSE]
    /\ presses = 0
    /\ locks = 0

\* What a direct call leaves alone.
UnchangedByCall ==
    UNCHANGED <<tetromino_generator, hold_piece, is_hold_available, current_tick_inputs,
                current_inputs, gravity, next_pieces, state, observed, dispatched,
                actions, applied_actions, signals, held, held_right_alone,
                last_placement, drawn, schedule, presses, locks>>

Called(op, arg, result) ==
    [op |-> op, arg |-> arg, result |-> result,
     from |-> <<current_piece.row, current_piece.col>>, t_spin |-> current_t_spin]

\* No method has been called yet.
Uncalled == call.op = "none" /\ ~aborted

\* The current piece is one the engine can have in play: it does not
\* collide, and it is low enough for every position the methods test to
\* lie within the rows of the field.
InPlay ==
    /\ current_piece.row <= PieceRows
    /\ CollisionScan(playfield, current_piece, 0) = "free"

\* BaseEngine::has_collision.
HasCollision ==
    /\ Uncalled
    /\ \E scan \in {CollisionScan(playfield, current_piece, 0)} :
           /\ aborted' = (scan = "panic")
           /\ call' = Called("has_collision", 0, IF scan = "collision" THEN 1 ELSE 0)
    /\ UNCHANGED <<playfield, current_piece, current_t_spin>>
    /\ UnchangedByCall

\* BaseEngine::rotate_piece_cw and rotate_piece_ccw.
RotatePiece(clockwise) ==
    /\ Uncalled /\ InPlay
    /\ \E r \in {rotate_piece(Engine, clockwise)} :
           /\ playfield' = r.engine.playfield
           /\ current_piece' = r.engine.current_piece
           /\ current_t_spin' = r.engine.current_t_spin
           /\ aborted' = r.engine.aborted
           /\ call' = Called("rotate_piece", IF clockwise THEN 1 ELSE -1,
                             IF r.rotated THEN 1 ELSE 0)
    /\ UnchangedByCall

\* BaseEngine::move_piece.
MovePiece(col_offset) ==
    /\ Uncalled /\ InPlay
    /\ \E cols \in {move_piece(playfield, current_piece, col_offset)} :
           /\ current_piece' = [current_piece EXCEPT
                                   !.col = @ + cols * Signum(col_offset)]
           /\ call' = Called("move_piece", col_offset, cols)
    /\ UNCHANGED <<playfield, current_t_spin, aborted>>
    /\ UnchangedByCall

\* BaseEngine::apply_piece_move with the one action given.
ApplyPieceMove(action) ==
    /\ Uncalled /\ InPlay
    /\ \E r \in {apply_piece_move(Engine, {action})} :
           /\ current_piece' = r.engine.current_piece
           /\ current_t_spin' = r.engine.current_t_spin
           /\ call' = Called("apply_piece_move", IF action = "MoveLeft" THEN -1 ELSE 1,
                             IF r.applied = {action} THEN 1 ELSE 0)
    /\ UNCHANGED <<playfield, aborted>>
    /\ UnchangedByCall

\* BaseEngine::drop.
Drop(n_rows) ==
    /\ Uncalled /\ InPlay
    /\ \E rows \in {drop(playfield, current_piece, n_rows)} :
           /\ current_piece' = [current_piece EXCEPT !.row = @ - rows]
           /\ call' = Called("drop", n_rows, rows)
    /\ UNCHANGED <<playfield, current_t_spin, aborted>>
    /\ UnchangedByCall

NextPiece ==
    \/ HasCollision
    \/ \E clockwise \in BOOLEAN : RotatePiece(clockwise)
    \/ \E col_offset \in {-2, -1, 1, 2} : MovePiece(col_offset)
    \/ \E action \in {"MoveLeft", "MoveRight"} : ApplyPieceMove(action)
    \/ \E n_rows \in (0..DropRows) \cup {TOTAL_HEIGHT} : Drop(n_rows)

SpecPiece == InitPiece /\ [][NextPiece]_vars

(***************************************************************************)
(* clear_rows called directly on a field set up cell by cell, as           *)
(* test_clear_rows does.                                                   *)
(***************************************************************************)
\* The contents a row is given: the columns holding a block.
RowContents == {{}, 1..WIDTH, {1}, {WIDTH}, 1..(WIDTH - 1)}

\* The rows that are given contents: the lowest FieldRows rows and the two
\* rows under the ceiling.
RowsSet == (1..FieldRows) \cup {TOTAL_HEIGHT - 1, TOTAL_HEIGHT}

\* The field whose row r holds blocks in the columns contents[r].
FieldOf(contents) == {c \in RowsSet \X (1..WIDTH) : c[2] \in contents[c[1]]}

InitField ==
    /\ playfield \in {FieldOf(contents) : contents \in [RowsSet -> RowContents]}
    /\ current_piece = [shape |-> "I", rotation |-> "Spawn",
                        row |-> SPAWN_ROW, col |-> SPAWN_COL]
    /\ current_t_spin = "None"
    /\ tetromino_generator = Bag(<<>>)
    /\ hold_piece = NoPiece
    /\ is_hold_available = TRUE
    /\ current_tick_inputs = {}
    /\ current_inputs = [a \in Action |-> 0]
    /\ gravity = TicksPerRow(DEFAULT_TICKS_PER_ROW)
    /\ next_pieces = <<>>
    /\ state = Falling(1)
    /\ observed = <<>>
    /\ dispatched = NoTick
    /\ actions = {}
    /\ applied_actions = {}
    /\ aborted = FALSE
    /\ call = NoMethod
    /\ signals = [a \in Action |-> 0]
    /\ held = [a \in Action |-> 0]
    /\ held_right_alone = 0
    /\ last_placement = NoCall
    /\ drawn = <<>>
    /\ schedule = [todo |-> <<>>, loop |-> FALSE, free |-> FALSE]
    /\ presses = 0
    /\ locks = 0

\* BaseEngine::clear_rows.
ClearRows ==
    /\ Uncalled
    /\ \E cleared \in {clear_rows(playfield)} :
           /\ playfield' = cleared.playfield
           /\ call' = Called("clear_rows", 0, cleared.n_rows)
    /\ UNCHANGED <<current_piece, current_t_spin, aborted>>
    /\ UnchangedByCall

NextField == ClearRows

SpecField == InitField /\ [][NextField]_vars

(***************************************************************************)
(* A BagGenerator on its own: created, then next() called MaxDraws times,  *)
(* as test_bag_generator does.                                             *)
(***************************************************************************)
InitBag ==
    /\ tetromino_generator \in BagGeneratorNew
    /\ playfield = PlayfieldNew
    /\ current_piece = [shape |-> "I", rotation |-> "Spawn",
                        row |-> SPAWN_ROW, col |-> SPAWN_COL]
    /\ current_t_spin = "None"
    /\ hold_piece = NoPiece
    /\ is_hold_available = TRUE
    /\ current_tick_inputs = {}
    /\ current_inputs = [a \in Action |-> 0]
    /\ gravity = TicksPerRow(DEFAULT_TICKS_PER_ROW)
    /\ next_pieces = <<>>
    /\ state = Falling(1)
    /\ observed = <<>>
    /\ dispatched = NoTick
    /\ actions = {}
    /\ applied_actions = {}
    /\ aborted = FALSE
    /\ call = NoMethod
    /\ signals = [a \in Action |-> 0]
    /\ held = [a \in Action |-> 0]
    /\ held_right_alone = 0
    /\ last_placement = NoCall
    /\ drawn = <<>>
    /\ schedule = [todo |-> <<>>, loop |-> FALSE, free |-> FALSE]
    /\ presses = 0
    /\ locks = 0

\* TetrominoGenerator::next on the bag generator.
BagNext ==
    /\ Len(drawn) < MaxDraws
    /\ \E draw \in GeneratorNext(tetromino_generator) :
           /\ tetromino_generator' = draw.generator
           /\ drawn' = Append(drawn, draw.piece)
    /\ UNCHANGED <<playfield, current_piece, hold_piece, is_hold_available,
                   current_tick_inputs, current_inputs, gravity, next_pieces, state,
                   current_t_spin, observed, dispatched, actions, applied_actions,
                   aborted, call, signals, held, held_right_alone, last_placement,
                   schedule, presses, locks>>

SpecBag == InitBag /\ [][BagNext]_vars

(***************************************************************************)
(* A Gravity on its own, multiplied once by a factor of at least one: the  *)
(* product is the result of the call, the gravity itself is not changed.   *)
(***************************************************************************)
Gravities == {TicksPerRow(n) : n \in 0..MaxGravity} \cup {RowsPerTick(n) : n \in 0..MaxGravity}

\* The numerators of the factors num / FactorDen between 1 and MaxFactor.
Factors == FactorDen..(MaxFactor * FactorDen)

InitGravity ==
    /\ gravity \in Gravities
    /\ tetromino_generator = Bag(<<"I", "J", "L", "O", "S", "T", "Z">>)
    /\ playfield = PlayfieldNew
    /\ current_piece = [shape |-> "I", rotation |-> "Spawn",
                        row |-> SPAWN_ROW, col |-> SPAWN_COL]
    /\ current_t_spin = "None"
    /\ hold_piece = NoPiece
    /\ is_hold_available = TRUE
    /\ current_tick_inputs = {}
    /\ current_inputs = [a \in Action |-> 0]
    /\ next_pieces = <<>>
    /\ state = Falling(1)
    /\ observed = <<>>
    /\ dispatched = NoTick
    /\ actions = {}
    /\ applied_actions = {}
    /\ aborted = FALSE
    /\ call = NoMethod
    /\ signals = [a \in Action |-> 0]
    /\ held = [a \in Action |-> 0]
    /\ held_right_alone = 0
    /\ last_placement = NoCall
    /\ drawn = <<>>
    /\ schedule = [todo |-> <<>>, loop |-> FALSE, free |-> FALSE]
    /\ presses = 0
    /\ locks = 0

\* Gravity::mul: gravity * (num / FactorDen).
Multiply(num) ==
    /\ Uncalled
    /\ call' = Called("mul", num, Mul(gravity, num, FactorDen))
    /\ UNCHANGED <<playfield, current_piece, current_t_spin, aborted>>
    /\ UnchangedByCall

NextGravity == \E num \in Factors : Multiply(num)

SpecGravity == InitGravity /\ [][NextGravity]_vars

(***************************************************************************)
(* Properties.  A step is a tick exactly when it leaves                    *)
(* current_tick_inputs empty (input_action adds to it); `dispatched`,      *)
(* `actions`, `applied_actions` and `observed` describe the last tick.     *)
(***************************************************************************)
TickStep == current_tick_inputs' = {}

\* C1: TopOut is absorbing.  Once the state is TopOut, every step (a tick
\* with whatever actions were signalled, or an input_action call) leaves
\* the state TopOut and changes none of the field, the current piece, the
\* hold slot and the upcoming queue; the tick notifies no observer.
TopOutIsAbsorbing ==
    [][state = TopOut =>
           /\ state' = TopOut
           /\ playfield' = playfield
           /\ current_piece' = current_piece
           /\ hold_piece' = hold_piece
           /\ next_pieces' = next_pieces
           /\ (TickStep => observed' = <<>> /\ applied_actions' = {})]_vars

\* A tick was taken in TopOut with a hold and a hard drop both active.
TopOutTickedWithInput ==
    /\ dispatched = TopOut
    /\ {"Hold", "HardDrop"} \subseteq actions
    /\ state = TopOut

\* C2: a tick taken in Spawn finds the current piece at its spawn position
\* and leads to TopOut if and only if one of the piece's cells is a Block
\* of the field, and to Falling(1) otherwise; either way the spin marker is
\* None afterwards and the field and the piece are unchanged.
SpawnTick ==
    [][(state = Spawn /\ TickStep) =>
           /\ current_piece = [shape |-> current_piece.shape, rotation |-> "Spawn",
                               row |-> SPAWN_ROW, col |-> SPAWN_COL]
           /\ state' = IF PieceCells(current_piece) \cap playfield # {}
                       THEN TopOut
                       ELSE Falling(1)
           /\ current_t_spin' = "None"
           /\ playfield' = playfield
           /\ current_piece' = current_piece]_vars

\* The tick taken in Spawn found a collision and led to TopOut.
SpawnTickToppedOut == dispatched = Spawn /\ state = TopOut

\* C3: a freshly constructed engine (no tick taken yet) is in state
\* Falling(1), with an empty field, an empty hold slot, hold available, and
\* the first piece at the spawn position in rotation Spawn.
FreshEngineIsFallingOne ==
    dispatched = NoTick =>
        /\ state = Falling(1)
        /\ playfield = {}
        /\ hold_piece = NoPiece
        /\ is_hold_available
        /\ current_piece = [shape |-> current_piece.shape, rotation |-> "Spawn",
                            row |-> SPAWN_ROW, col |-> SPAWN_COL]

\* A cell of the piece lies below the floor, beyond a wall, or on a Block.
Collides(field, piece) ==
    \E c \in PieceCells(piece) :
        c[1] < 1 \/ c[2] < 1 \/ c[2] > WIDTH \/ c \in field

\* The ticks on which the actions are resolved: in Falling(n), and in
\* Lock(n) with n < LOCK_DELAY.
ActionTick ==
    /\ TickStep
    /\ state.tag \in {"Falling", "Lock"}
    /\ state # Lock(LOCK_DELAY)

\* Hold is applied on this tick: it is active and available.
HoldApplies == "Hold" \in actions' /\ is_hold_available

Moves == {"MoveLeft", "MoveRight", "RotateClockwise", "RotateCounterClockwise"}

\* C4: lock delay.  The lock counter is between 1 and LOCK_DELAY; a tick in
\* Lock(n), n < LOCK_DELAY, on which no action is applied leads to
\* Lock(n + 1) with the piece and the field untouched; the tick taken in
\* Lock(LOCK_DELAY) applies no action whatever is signalled, writes the
\* piece where it is into the field, notifies on_lock and nothing else, and
\* ends in Spawn or LineClear(1).
LockDelay ==
    [][(state.tag = "Lock" /\ TickStep) =>
           /\ state.n \in 1..LOCK_DELAY
           /\ (state.n < LOCK_DELAY /\ applied_actions' = {}) =>
                  /\ state' = Lock(state.n + 1)
                  /\ current_piece' = current_piece
                  /\ playfield' = playfield
           /\ state.n = LOCK_DELAY =>
                  /\ applied_actions' = {}
                  /\ playfield' = playfield \cup PieceCells(current_piece)
                  /\ Len(observed') = 1
                  /\ observed'[1].event = "on_lock"
                  /\ state' \in {Spawn, LineClear(1)}]_vars

\* The tick taken in Lock(LOCK_DELAY) locked the piece although a hold (never
\* used before, so available), a move and a rotation were active.
LockedAtThresholdDespiteInput ==
    /\ dispatched = Lock(LOCK_DELAY)
    /\ {"Hold", "MoveLeft", "RotateClockwise"} \subseteq actions
    /\ hold_piece = NoPiece
    /\ playfield # {}
    /\ state = Spawn

\* C5: on a tick in Lock(n), n < LOCK_DELAY, where neither hold nor hard
\* drop is applied and a horizontal move or a rotation succeeds, the next
\* state is Lock(1) if the piece, one row below its new position, would
\* collide, and Falling(1) otherwise.
LockMoveRetestsResting ==
    [][(/\ state.tag = "Lock" /\ state.n < LOCK_DELAY /\ TickStep
        /\ applied_actions' \cap {"Hold", "HardDrop"} = {}
        /\ applied_actions' \cap Moves # {}) =>
           state' = IF Collides(playfield',
                                [current_piece' EXCEPT !.row = current_piece'.row - 1])
                    THEN Lock(1)
                    ELSE Falling(1)]_vars

\* A move in Lock took the piece off its support: the state is Falling(1).
MovedOffSupport ==
    /\ dispatched.tag = "Lock"
    /\ applied_actions = {"MoveLeft"}
    /\ state = Falling(1)

\* The engine driven by the stalling caller, which keeps calling
\* input_action and tick.
InitStall == InitOf({ScenarioStall})

SpecStall == InitStall /\ [][Next]_vars /\ WF_vars(Next)

\* C6: stalling is possible.  Under the caller that alternates a move to the
\* left and a move to the right, each succeeding, no piece is ever locked
\* (the field stays empty) and from some tick on the state is Lock(1) after
\* every tick, forever.
StallingIsPossible == [](playfield = {}) /\ <>[](state = Lock(1))

\* The resting piece was moved in Lock(1) and the state is Lock(1) again.
StalledInLockOne ==
    /\ schedule.loop
    /\ dispatched = Lock(1)
    /\ applied_actions = {"MoveRight"}
    /\ state = Lock(1)
    /\ playfield = {}

SpawnPiece(shape) ==
    [shape |-> shape, rotation |-> "Spawn", row |-> SPAWN_ROW, col |-> SPAWN_COL]

OnLockNotified == \E i \in 1..Len(observed') : observed'[i].event = "on_lock"

\* C7: hold is usable once per piece.  On a tick that resolves actions with
\* hold active: if hold is available, the current piece's type goes into
\* the hold slot, the new current piece is the previously held type (or the
\* front of the queue, which then advances, if the slot was empty) at the
\* spawn position in rotation Spawn, and hold becomes unavailable; if hold
\* is unavailable, the tick is the tick the same actions without hold would
\* have given.  Hold stays unavailable, with the hold slot and the type of
\* the current piece unchanged, on every tick that does not lock a piece.
HoldOncePerPiece ==
    [][/\ (ActionTick /\ "Hold" \in actions' /\ is_hold_available) =>
              /\ hold_piece' = current_piece.shape
              /\ current_piece' = SpawnPiece(IF hold_piece = NoPiece
                                             THEN Head(next_pieces)
                                             ELSE hold_piece)
              /\ IF hold_piece = NoPiece
                 THEN SubSeq(next_pieces', 1, Len(next_pieces) - 1) = Tail(next_pieces)
                 ELSE next_pieces' = next_pieces
              /\ ~is_hold_available'
       /\ (ActionTick /\ "Hold" \in actions' /\ ~is_hold_available) =>
              /\ "Hold" \notin applied_actions'
              /\ hold_piece' = hold_piece
              /\ \E draw \in GeneratorNext(tetromino_generator) :
                 \E r \in {tick(Engine, actions' \ {"Hold"}, draw)} :
                     /\ current_piece' = r.engine.current_piece
                     /\ playfield' = r.engine.playfield
                     /\ state' = r.engine.state
                     /\ applied_actions' = r.applied
       /\ (TickStep /\ ~is_hold_available /\ ~OnLockNotified) =>
              /\ ~is_hold_available'
              /\ hold_piece' = hold_piece
              /\ current_piece'.shape = current_piece.shape]_vars

\* A hold was active on a tick that resolved actions, after the piece in
\* play had come out of a hold: it was not applied.
SecondHoldRefused ==
    /\ dispatched.tag \in {"Falling", "Lock"}
    /\ dispatched # Lock(LOCK_DELAY)
    /\ "Hold" \in actions
    /\ "Hold" \notin applied_actions
    /\ ~is_hold_available
    /\ hold_piece # NoPiece

\* C8: hold pre-empts everything else in its tick.  On a tick in Falling(n)
\* or Lock(n < LOCK_DELAY) where hold is active and available, hold is the
\* only action applied, no observer is notified (no hard drop, no soft drop,
\* no lock), and after the tick the current piece is at the spawn position
\* in rotation Spawn, the field is unchanged and the state is Falling(1).
HoldPreempts ==
    [][(ActionTick /\ HoldApplies) =>
           /\ applied_actions' = {"Hold"}
           /\ observed' = <<>>
           /\ current_piece' = SpawnPiece(current_piece'.shape)
           /\ playfield' = playfield
           /\ state' = Falling(1)]_vars

\* A hold was applied in Lock on a tick where a move, a rotation and a hard
\* drop were active too.
HoldAppliedAmongOthers ==
    /\ dispatched.tag = "Lock"
    /\ {"Hold", "MoveLeft", "RotateClockwise", "HardDrop"} \subseteq actions
    /\ applied_actions = {"Hold"}
    /\ state = Falling(1)

\* The piece as the tick's move and rotation leave it.
MovedAndRotated ==
    apply_piece_rotation(apply_piece_move(Engine, actions').engine,
                         actions').engine.current_piece

\* C9: hard drop.  On a tick in Falling(n) or Lock(n < LOCK_DELAY) where
\* hard drop is active and hold is not applied, the piece, as that tick's
\* move and rotation leave it, descends r rows, none of the positions passed
\* colliding and the position one row further colliding; on_hard_drop(r)
\* and then on_lock are notified, and nothing else; the piece is written
\* into the field at the row reached and the state is Spawn or
\* LineClear(1).  This holds under every gravity and Falling counter.
HardDropLocks ==
    [][(ActionTick /\ "HardDrop" \in actions' /\ ~HoldApplies) =>
           \E p \in {MovedAndRotated} :
           \E r \in 0..TOTAL_HEIGHT :
               /\ \A k \in 0..r : ~Collides(playfield, [p EXCEPT !.row = p.row - k])
               /\ Collides(playfield, [p EXCEPT !.row = p.row - r - 1])
               /\ "HardDrop" \in applied_actions'
               /\ Len(observed') = 2
               /\ observed'[1] = [event |-> "on_hard_drop", arg |-> r]
               /\ observed'[2].event = "on_lock"
               /\ playfield' = playfield \cup PieceCells([p EXCEPT !.row = p.row - r])
               /\ state' \in {Spawn, LineClear(1)}]_vars

\* A falling piece was moved and hard-dropped several rows in one tick,
\* under a gravity of one row every two ticks.
HardDroppedWhileFalling ==
    /\ dispatched.tag = "Falling"
    /\ gravity = TicksPerRow(2)
    /\ {"MoveLeft", "HardDrop"} \subseteq applied_actions
    /\ Len(observed) = 2
    /\ observed[1].event = "on_hard_drop"
    /\ observed[1].arg > 1
    /\ state = Spawn

\* The ticks that run the lock procedure.
LockTick ==
    \/ TickStep /\ state = Lock(LOCK_DELAY)
    \/ ActionTick /\ "HardDrop" \in actions' /\ ~HoldApplies

\* The engine as the lock procedure finds it: after the tick's actions when
\* they are resolved.
BeforeLock ==
    IF state = Lock(LOCK_DELAY) THEN Engine
    ELSE apply_actions(Engine, actions',
                       CHOOSE d \in GeneratorNext(tetromino_generator) : TRUE).engine

\* C10: lock procedure.  The field afterwards is the field before plus the
\* cells of the current piece, which are four cells that were Empty; on_lock
\* is the last notification and carries the spin classification held when
\* the procedure starts; the marker is None afterwards; the next state is
\* LineClear(1) if and only if some row of the field is now full, and Spawn
\* otherwise.
LockProcedure ==
    [][LockTick =>
           \E before \in {BeforeLock} :
               /\ playfield' = playfield \cup PieceCells(before.current_piece)
               /\ Cardinality(playfield' \ playfield) = 4
               /\ observed' # <<>>
               /\ observed'[Len(observed')] =
                      [event |-> "on_lock", arg |-> TSpinFrom(before.current_t_spin)]
               /\ current_t_spin' = "None"
               /\ state' = IF \E row \in 1..TOTAL_HEIGHT :
                                  \A col \in 1..WIDTH : <<row, col>> \in playfield'
                           THEN LineClear(1)
                           ELSE Spawn]_vars

\* A T piece was locked with a spin classification other than None.
LockedWithSpin ==
    /\ observed # <<>>
    /\ observed[Len(observed)].event = "on_lock"
    /\ observed[Len(observed)].arg # "None"
    /\ current_t_spin = "None"
    /\ state = Spawn

\* C11: LineClear is a non-interactive pause.  A tick taken in LineClear(n)
\* with n < LINE_CLEAR_DELAY leads to LineClear(n + 1) and leaves the field,
\* the current piece, the hold slot, the availability of hold, the upcoming
\* queue and the spin marker as they were, whatever actions are active, and
\* notifies no observer.
LineClearIsAPause ==
    [][(state.tag = "LineClear" /\ state.n < LINE_CLEAR_DELAY /\ TickStep) =>
           /\ state' = LineClear(state.n + 1)
           /\ playfield' = playfield
           /\ current_piece' = current_piece
           /\ hold_piece' = hold_piece
           /\ is_hold_available' = is_hold_available
           /\ next_pieces' = next_pieces
           /\ current_t_spin' = current_t_spin
           /\ observed' = <<>>
           /\ applied_actions' = {}]_vars

\* A tick was taken in LineClear below the threshold with a hold active and
\* available: the counter went on and the hold is still available.
LineClearTickedWithHold ==
    /\ dispatched.tag = "LineClear"
    /\ dispatched.n < LINE_CLEAR_DELAY
    /\ "Hold" \in actions
    /\ is_hold_available
    /\ state = LineClear(dispatched.n + 1)

\* The full rows of a field.
FullRows(field) ==
    {row \in 1..TOTAL_HEIGHT : \A col \in 1..WIDTH : <<row, col>> \in field}

\* C12: line-clear notification and its order.  on_line_clear is notified
\* on a tick exactly when that tick is taken in LineClear(LINE_CLEAR_DELAY);
\* it is then the tick's only notification, its argument k is the number of
\* full rows of the field, the compaction removes k rows of WIDTH cells and
\* leaves no full row, and the state afterwards is Spawn.  The last on_lock
\* or on_line_clear notified before it is an on_lock, and the field is
\* still as the tick of that on_lock left it: it is the on_lock of the
\* placement that filled the rows.
LineClearNotification ==
    [][TickStep =>
           /\ (state = LineClear(LINE_CLEAR_DELAY))
                  <=> (\E i \in 1..Len(observed') : observed'[i].event = "on_line_clear")
           /\ (state = LineClear(LINE_CLEAR_DELAY)) =>
                  \E k \in {Cardinality(FullRows(playfield))} :
                      /\ observed' = <<[event |-> "on_line_clear", arg |-> k]>>
                      /\ Cardinality(playfield') = Cardinality(playfield) - k * WIDTH
                      /\ FullRows(playfield') = {}
                      /\ state' = Spawn
                      /\ last_placement.event = "on_lock"
                      /\ last_placement.field = playfield]_vars

\* on_line_clear(1) was notified by the tick taken in LineClear(30), after
\* an on_lock, and the state is Spawn.
LineClearNotified ==
    /\ dispatched = LineClear(LINE_CLEAR_DELAY)
    /\ observed = <<[event |-> "on_line_clear", arg |-> 1]>>
    /\ last_placement.event = "on_line_clear"
    /\ state = Spawn

\* An action signalled on d consecutive ticks is active, by its kind.
ActiveAfter(a, d) ==
    CASE a \in {"Hold", "RotateClockwise", "RotateCounterClockwise", "HardDrop"} -> d = 1
      [] a = "SoftDrop" -> d >= 1
      [] a \in {"MoveLeft", "MoveRight"} ->
             \/ d = 1
             \/ d = 12
             \/ d > 12 /\ \E k \in 1..d : d - 12 = 7 * k

\* C13 as stated: on every tick, with d the number of consecutive ticks an
\* action has been signalled (0 when it was not signalled since the previous
\* tick), each of the seven actions is active exactly when its kind allows
\* it after d ticks: Hold, the rotations and HardDrop at d = 1, SoftDrop at
\* d >= 1, MoveLeft and MoveRight at d = 1, d = 12 and d = 12 + 7k.
ActiveByPressDuration ==
    [][TickStep => \A a \in Action : (a \in actions') <=> ActiveAfter(a, held'[a])]_vars

\* C13, amended: the same for every action but MoveRight; MoveRight is
\* active exactly when its kind allows it after d ticks, d being the number
\* of consecutive ticks on which MoveRight was signalled and MoveLeft was
\* not.
ActiveByPressDurationLeftFirst ==
    [][TickStep =>
           /\ \A a \in Action \ {"MoveRight"} :
                  (a \in actions') <=> ActiveAfter(a, held'[a])
           /\ ("MoveRight" \in actions') <=> ActiveAfter("MoveRight", held_right_alone')]_vars

\* MoveLeft repeated on the 19th tick of its press, with SoftDrop active on
\* its 34th, and MoveRight, signalled for 33 ticks, not active.
MoveRepeatedAfterDelay ==
    /\ held["MoveLeft"] = AUTO_REPEAT_DELAY + AUTO_REPEAT_RATE
    /\ held["SoftDrop"] > AUTO_REPEAT_DELAY + AUTO_REPEAT_RATE
    /\ held["MoveRight"] = 33
    /\ actions = {"MoveLeft", "SoftDrop"}

\* C14: left beats right.  On every tick for which MoveLeft was signalled,
\* the duration of MoveRight is 0 after input processing and MoveRight is
\* not active; on the first tick for which MoveLeft is no longer signalled
\* while MoveRight is, MoveRight has duration 1 and is active, however long
\* it has been signalled.
LeftBeatsRight ==
    [][TickStep =>
           /\ signals["MoveLeft"] > 0 =>
                  /\ current_inputs'["MoveRight"] = 0
                  /\ "MoveRight" \notin actions'
           /\ (held["MoveLeft"] > 0 /\ signals["MoveLeft"] = 0
               /\ signals["MoveRight"] > 0) =>
                  /\ current_inputs'["MoveRight"] = 1
                  /\ "MoveRight" \in actions']_vars

\* MoveLeft was released while MoveRight, signalled for 35 ticks running,
\* still is: MoveRight has duration 1 and is active.
RightFiresWhenLeftReleased ==
    /\ held["MoveLeft"] = 0
    /\ held["MoveRight"] = 35
    /\ current_inputs["MoveRight"] = 1
    /\ "MoveRight" \in actions

\* The actions signalled at least once since the last tick.
Signalled(calls) == {a \in Action : calls[a] >= 1}

\* C15: signals are a set, not a counter.  After every step the pending set
\* holds exactly the actions signalled at least once since the last tick,
\* however many times each was signalled; so it is empty after every tick,
\* in every state of the engine.  A tick gives the durations, the active
\* actions and the engine that a tick with each of them signalled once
\* gives.
SignalsAreASet ==
    [][/\ current_tick_inputs' = Signalled(signals')
       /\ (\A a \in Action : signals'[a] = 0) =>
              \E input \in {process_input(Signalled(signals), current_inputs)} :
              \E draw \in GeneratorNext(tetromino_generator) :
              \E r \in {tick(Engine, input.actions, draw)} :
                  /\ current_inputs' = input.current_inputs
                  /\ actions' = input.actions
                  /\ playfield' = r.engine.playfield
                  /\ current_piece' = r.engine.current_piece
                  /\ hold_piece' = r.engine.hold_piece
                  /\ is_hold_available' = r.engine.is_hold_available
                  /\ next_pieces' = r.engine.next_pieces
                  /\ state' = r.engine.state
                  /\ current_t_spin' = r.engine.current_t_spin]_vars

\* A hard drop and a hold were each signalled twice to a topped-out engine:
\* each is pending once.
SignalledTwice ==
    /\ state = TopOut
    /\ signals["HardDrop"] = 2
    /\ signals["Hold"] = 2
    /\ current_tick_inputs = {"HardDrop", "Hold"}

\* The kick tables as the specification lists them: (dcol, drow) pairs in
\* the order tried, by rotation before and after.
SharedKickTable ==
    [Spawn |-> [Clockwise |-> <<<<-1, 0>>, <<-1, 1>>, <<0, -2>>, <<-1, -2>>>>,
                CounterClockwise |-> <<<<1, 0>>, <<1, 1>>, <<0, -2>>, <<1, -2>>>>],
     Clockwise |-> [Spawn |-> <<<<1, 0>>, <<1, -1>>, <<0, 2>>, <<1, 2>>>>,
                    OneEighty |-> <<<<1, 0>>, <<1, -1>>, <<0, 2>>, <<1, 2>>>>],
     OneEighty |-> [Clockwise |-> <<<<-1, 0>>, <<-1, 1>>, <<0, -2>>, <<-1, -2>>>>,
                    CounterClockwise |-> <<<<1, 0>>, <<1, 1>>, <<0, -2>>, <<1, -2>>>>],
     CounterClockwise |-> [OneEighty |-> <<<<-1, 0>>, <<-1, -1>>, <<0, 2>>, <<-1, 2>>>>,
                           Spawn |-> <<<<-1, 0>>, <<-1, -1>>, <<0, 2>>, <<-1, 2>>>>]]

IKickTable ==
    [Spawn |-> [Clockwise |-> <<<<-2, 0>>, <<1, 0>>, <<-2, -1>>, <<1, 2>>>>,
                CounterClockwise |-> <<<<-1, 0>>, <<2, 0>>, <<-1, 2>>, <<2, -1>>>>],
     Clockwise |-> [Spawn |-> <<<<2, 0>>, <<-1, 0>>, <<2, 1>>, <<-1, -2>>>>,
                    OneEighty |-> <<<<-1, 0>>, <<2, 0>>, <<-1, 2>>, <<2, -1>>>>],
     OneEighty |-> [Clockwise |-> <<<<1, 0>>, <<-2, 0>>, <<1, -2>>, <<-2, 1>>>>,
                    CounterClockwise |-> <<<<2, 0>>, <<-1, 0>>, <<2, 1>>, <<-1, -2>>>>],
     CounterClockwise |-> [OneEighty |-> <<<<-2, 0>>, <<1, 0>>, <<-2, -1>>, <<1, 2>>>>,
                           Spawn |-> <<<<1, 0>>, <<-2, 0>>, <<1, -2>>, <<-2, 1>>>>]]

\* The candidates of a rotation, in order: in place, then the table of the
\* piece's family (the O piece has none).
Candidates(shape, from, to) ==
    <<<<0, 0>>>> \o (IF shape = "O" THEN <<>>
                    ELSE IF shape = "I" THEN IKickTable[from][to]
                    ELSE SharedKickTable[from][to])

\* The piece in rotation `to`, displaced by the offset (dcol, drow).
Kicked(piece, to, offset) ==
    [piece EXCEPT !.rotation = to, !.col = piece.col + offset[1],
                  !.row = piece.row + offset[2]]

\* The rotation a call of rotate_piece with argument arg asks for.
Target(from, arg) == IF arg = 1 THEN cw(from) ELSE ccw(from)

\* The positions, in the order tried, of the candidates that do not collide.
Viable(field, piece, to) ==
    {i \in 1..Len(Candidates(piece.shape, piece.rotation, to)) :
        ~Collides(field, Kicked(piece, to, Candidates(piece.shape, piece.rotation, to)[i]))}

\* The step calls rotate_piece.
Rotates == call.op = "none" /\ call'.op = "rotate_piece"

\* C16: kick resolution on success.  When rotate_piece is called for a
\* piece that does not collide and some candidate (in place, then the four
\* offsets of the table for the piece's family and the two rotations) does
\* not collide, the call returns true and the piece afterwards is the piece
\* in the target rotation displaced by the first such candidate, and by no
\* other; it does not collide and the field is unchanged.
KickResolution ==
    [][(Rotates /\ ~Collides(playfield, current_piece)) =>
           \E to \in {Target(current_piece.rotation, call'.arg)} :
           \E viable \in {Viable(playfield, current_piece, to)} :
               viable # {} =>
                   \E first \in viable :
                       /\ \A i \in viable : first <= i
                       /\ call'.result = 1
                       /\ current_piece' =
                              Kicked(current_piece, to,
                                     Candidates(current_piece.shape,
                                                current_piece.rotation, to)[first])
                       /\ ~Collides(playfield', current_piece')
                       /\ playfield' = playfield]_vars

\* A rotation of an I piece succeeded with the displacement of the last
\* offset of its table.
KickedByLastOffset ==
    /\ call.op = "rotate_piece"
    /\ call.result = 1
    /\ current_piece.shape = "I"
    /\ \E from \in Rotation :
           /\ Target(from, call.arg) = current_piece.rotation
           /\ <<current_piece.col - call.from[2], current_piece.row - call.from[1]>>
                  = IKickTable[from][current_piece.rotation][4]

\* The step calls the method op with argument arg on a piece that does
\* not collide.
Attempts(op, arg) ==
    /\ call.op = "none"
    /\ call'.op = op
    /\ call'.arg = arg
    /\ ~Collides(playfield, current_piece)

\* The step reports nothing applied and leaves the piece, the field and
\* the spin marker as they were.
NotApplied ==
    /\ call'.result = 0
    /\ current_piece' = current_piece
    /\ playfield' = playfield
    /\ current_t_spin' = current_t_spin
    /\ ~aborted'

\* C17: failed attempts change nothing.  A rotation with no candidate
\* that does not collide, a move by one column that would collide and a
\* drop by one row that would collide each return false or 0 and leave the
\* piece's rotation, row and column, the field and the spin marker as they
\* were.
FailedAttemptsChangeNothing ==
    [][/\ \A arg \in {1, -1} :
              (/\ Attempts("rotate_piece", arg)
               /\ Viable(playfield, current_piece,
                         Target(current_piece.rotation, arg)) = {})
                  => NotApplied
       /\ \A arg \in {1, -1} :
              (/\ Attempts("move_piece", arg)
               /\ Collides(playfield,
                           [current_piece EXCEPT !.col = current_piece.col + arg]))
                  => NotApplied
       /\ (/\ Attempts("drop", 1)
           /\ Collides(playfield,
                       [current_piece EXCEPT !.row = current_piece.row - 1]))
              => NotApplied]_vars

\* A rotation of a T piece carrying a spin marker found no candidate.
RotationFoundNoCandidate ==
    /\ call.op = "rotate_piece"
    /\ call.result = 0
    /\ current_piece.shape = "T"
    /\ current_t_spin = "Regular"
    /\ ~Collides(playfield, current_piece)
    /\ Viable(playfield, current_piece,
              Target(current_piece.rotation, call.arg)) = {}

Rotations == {"RotateClockwise", "RotateCounterClockwise"}

\* The tick applies a rotation request to an O piece: the piece is falling
\* or in lock delay, a rotation is active and no hold is.
RotatesO ==
    /\ TickStep
    /\ state.tag \in {"Falling", "Lock"}
    /\ current_piece.shape = "O"
    /\ actions' \cap Rotations # {}
    /\ "Hold" \notin actions'

\* C18: for the O piece, in every state reached through ticks and signals,
\* a rotation request succeeds in place: the kick-table lookup, whose O
\* branch aborts, is not reached, and when the tick applies actions the
\* rotation is among them.
ORotationAlwaysSucceeds ==
    [][RotatesO =>
           /\ ~aborted'
           /\ applied_actions' # {} => applied_actions' \cap Rotations # {}]_vars

\* C19: has_collision is true exactly when some cell of the piece lies at
\* a column below 1 or above 10, at a row below 1, or on an occupied cell
\* of the field; a cell above row 40 does not collide and does not abort
\* the test.
CollisionIsTheCellTest ==
    call.op = "has_collision" =>
        /\ ~aborted
        /\ (call.result = 1) <=> Collides(playfield, current_piece)

\* The part of C19 below the ceiling: for a piece with no cell in a column
\* of the field above row 40, has_collision returns without aborting and
\* is true exactly for the cell test.
CollisionIsTheCellTestBelowCeiling ==
    (/\ call.op = "has_collision"
     /\ \A c \in PieceCells(current_piece) : c[1] > TOTAL_HEIGHT => c[2] \notin 1..WIDTH)
        => /\ ~aborted
           /\ (call.result = 1) <=> Collides(playfield, current_piece)

\* The piece lowered by j rows.
Lowered(piece, j) == [piece EXCEPT !.row = piece.row - j]

\* The number of consecutive one-row descents of a piece that does not
\* collide before the first collision.
Clearance(field, piece) ==
    CHOOSE c \in 0..TOTAL_HEIGHT :
        /\ \A j \in 1..c : ~Collides(field, Lowered(piece, j))
        /\ Collides(field, Lowered(piece, c + 1))

\* C20: for a piece that does not collide, drop(n) returns the smaller of
\* n and the number of one-row descents possible before the first
\* collision; the piece is that many rows lower, in the same column and
\* rotation, and does not collide.
DropStopsAtFirstCollision ==
    [][(/\ call.op = "none"
        /\ call'.op = "drop"
        /\ ~Collides(playfield, current_piece)) =>
           \E c \in {Clearance(playfield, current_piece)} :
           \E k \in {IF call'.arg < c THEN call'.arg ELSE c} :
               /\ call'.result = k
               /\ current_piece' = Lowered(current_piece, k)
               /\ ~Collides(playfield', current_piece')
               /\ playfield' = playfield
               /\ ~aborted']_vars

\* A drop by more rows than the clearance stopped two rows lower, on a
\* block of the field.
DropStoppedOnTheStack ==
    /\ call.op = "drop"
    /\ call.arg = TOTAL_HEIGHT
    /\ call.result = 2
    /\ current_piece.row = call.from[1] - 2
    /\ PieceCells(Lowered(current_piece, 1)) \cap playfield # {}

\* The columns of row `row` that hold a block.
RowOf(field, row) == {col \in 1..WIDTH : <<row, col>> \in field}

\* The i-th row, counting from the floor, that is not full.
NthNonFullRow(field, i) ==
    CHOOSE row \in 1..TOTAL_HEIGHT :
        /\ row \notin FullRows(field)
        /\ Cardinality((1..row) \ FullRows(field)) = i

\* The step calls clear_rows.
ClearsRows == call.op = "none" /\ call'.op = "clear_rows"

\* C21: clear_rows on a field with k full rows returns k; with k = 0 the
\* field is unchanged; with k >= 1 rows 1..(40-k) afterwards hold the
\* contents of the rows that were not full, in their order from the floor
\* up, and every row above row 40-k, up to and including row 40, is empty.
ClearRowsCompacts ==
    [][ClearsRows =>
           \E k \in {Cardinality(FullRows(playfield))} :
               /\ call'.result = k
               /\ k = 0 => playfield' = playfield
               /\ k >= 1 =>
                      /\ \A i \in 1..(TOTAL_HEIGHT - k) :
                             RowOf(playfield', i)
                                 = RowOf(playfield, NthNonFullRow(playfield, i))
                      /\ \A row \in (TOTAL_HEIGHT - k + 1)..TOTAL_HEIGHT :
                             RowOf(playfield', row) = {}]_vars

\* The part of C21 that holds: the same statement for the rows below row
\* 40, and row 40 itself is left as it was whenever a row was cleared.
ClearRowsCompactsBelowCeiling ==
    [][ClearsRows =>
           \E k \in {Cardinality(FullRows(playfield))} :
               /\ call'.result = k
               /\ k = 0 => playfield' = playfield
               /\ k >= 1 =>
                      /\ \A i \in 1..(TOTAL_HEIGHT - k) :
                             RowOf(playfield', i)
                                 = RowOf(playfield, NthNonFullRow(playfield, i))
                      /\ \A row \in (TOTAL_HEIGHT - k + 1)..(TOTAL_HEIGHT - 1) :
                             RowOf(playfield', row) = {}
                      /\ RowOf(playfield', TOTAL_HEIGHT)
                             = RowOf(playfield, TOTAL_HEIGHT)]_vars

\* The draws 7i+1 .. 7i+7 of a sequence of draws.
Window(draws, i) == [j \in 1..7 |-> draws[7 * i + j]]

\* C22: counting the draws from the creation of the bag generator, the
\* draws 7i+1 .. 7i+7 contain each of the seven pieces exactly once, for
\* every i.
BagWindowsAreComplete ==
    \A i \in 0..((Len(drawn) \div 7) - 1) :
        \A t \in Tetromino :
            Cardinality({j \in 1..7 : Window(drawn, i)[j] = t}) = 1

\* Four windows have been drawn, and two of them differ in their order.
FourWindowsDrawn ==
    /\ Len(drawn) = 28
    /\ Window(drawn, 1) # Window(drawn, 2)
    /\ Window(drawn, 0) = Window(drawn, 3)

\* C23: the upcoming queue holds exactly five pieces in every state; a
\* step that draws from the generator makes the front of the queue the
\* current piece, moves the other four forward in their order and appends
\* the piece drawn at the back; any other step leaves the queue as it is.
UpcomingQueueOfFive ==
    /\ Len(next_pieces) = 5
    /\ [][/\ Len(next_pieces') = 5
          /\ IF tetromino_generator' # tetromino_generator
             THEN \E draw \in GeneratorNext(tetromino_generator) :
                      /\ tetromino_generator' = draw.generator
                      /\ current_piece'.shape = Head(next_pieces)
                      /\ SubSeq(next_pieces', 1, 4) = Tail(next_pieces)
                      /\ next_pieces'[5] = draw.piece
             ELSE next_pieces' = next_pieces]_vars

\* A piece was locked and the draw that followed refilled the bag: the
\* back of the queue is the first piece of a new shuffle.
QueueRefilledFromNewBag ==
    /\ state = Spawn
    /\ dispatched.tag \in {"Falling", "Lock"}
    /\ Len(tetromino_generator.bag) = 6
    /\ \E s \in Shuffles :
           /\ next_pieces[5] = Head(s)
           /\ tetromino_generator.bag = Tail(s)

\* The step rotates a T piece that does not collide, and the first
\* candidate that does not collide is the last offset of the shared table.
RotatesTByLastOffset ==
    /\ Rotates
    /\ current_piece.shape = "T"
    /\ ~Collides(playfield, current_piece)
    /\ \E viable \in {Viable(playfield, current_piece,
                              Target(current_piece.rotation, call'.arg))} :
           viable # {} /\ \A i \in viable : i >= 5

\* C24: borderline spin.  When a rotation of a T piece collides in place
\* and at the first three offsets and succeeds by the fourth offset of the
\* shared table, the spin marker afterwards is the borderline value
\* (PointFive), whatever the corner cells hold.
BorderlineSpinByLastOffset ==
    [][RotatesTByLastOffset =>
           /\ call'.result = 1
           /\ current_t_spin' = "PointFive"]_vars

\* The centre of a T piece: the block the other three are attached to.
Centre(piece) ==
    CHOOSE c \in PieceCells(piece) :
        \A b \in PieceCells(piece) : Abs(b[1] - c[1]) + Abs(b[2] - c[2]) <= 1

\* The block of a T piece with the given centre that has no block
\* opposite to it.
Nose(piece, centre) ==
    CHOOSE b \in PieceCells(piece) \ {centre} :
        <<2 * centre[1] - b[1], 2 * centre[2] - b[2]>> \notin PieceCells(piece)

\* The four cells diagonal to the centre.
Corners(centre) ==
    {<<centre[1] + dr, centre[2] + dc>> : dr \in {-1, 1}, dc \in {-1, 1}}

\* A corner counts as occupied when it is outside the field or a Block.
Occupied(field, c) ==
    \/ c[1] < 1 \/ c[1] > TOTAL_HEIGHT
    \/ c[2] < 1 \/ c[2] > WIDTH
    \/ c \in field

\* The classification for the corners A and B (ab) and C and D (cd).
ClassifyCorners(field, ab, cd) ==
    IF (\A c \in ab : Occupied(field, c)) /\ (\E c \in cd : Occupied(field, c))
    THEN "Regular"
    ELSE IF (\A c \in cd : Occupied(field, c)) /\ (\E c \in ab : Occupied(field, c))
    THEN "Mini"
    ELSE "None"

\* The classification of the specification for a piece in its new
\* rotation: A and B are the two corners next to the nose, C and D the two
\* away from it.
Classification(field, piece) ==
    IF piece.shape # "T" THEN "None"
    ELSE LET ByCentre(centre) ==
                 LET ByNose(nose) ==
                         LET ByAB(ab) == ClassifyCorners(field, ab, Corners(centre) \ ab)
                         IN  Let(ByAB, {c \in Corners(centre) :
                                           Abs(c[1] - nose[1]) + Abs(c[2] - nose[2]) = 1})
                 IN  Let(ByNose, Nose(piece, centre))
         IN  Let(ByCentre, Centre(piece))

\* C25: after a successful rotation, with a marker that was not the
\* borderline value, the spin marker is Regular iff A and B and (C or D)
\* are occupied, otherwise Mini iff C and D and (A or B) are, otherwise
\* None, for the corners of the new rotation; for every piece other than
\* T it is None.
SpinIsCornerClassification ==
    [][(Rotates /\ call'.result = 1 /\ current_t_spin # "PointFive") =>
           current_t_spin' = Classification(playfield', current_piece')]_vars

\* A rotation displaced a T piece that carried no marker and left it with
\* a Mini marker.
RotatedIntoMini ==
    /\ call.op = "rotate_piece"
    /\ call.result = 1
    /\ current_piece.shape = "T"
    /\ current_t_spin = "Mini"
    /\ call.from # <<current_piece.row, current_piece.col>>

\* What the code does in the case of C24: the rotation succeeds and the
\* marker is the classification of the corner cells.
LastOffsetSpinIsCornerTest ==
    [][RotatesTByLastOffset =>
           /\ call'.result = 1
           /\ current_t_spin' =
                  (IF current_t_spin = "PointFive" THEN "PointFive"
                   ELSE Classification(playfield', current_piece'))]_vars

\* C26: every successful horizontal move (the column of the piece
\* changes) leaves the spin marker None, whatever it was before, the
\* borderline value included.
MoveResetsSpin ==
    [][(/\ call.op = "none"
        /\ call'.op = "apply_piece_move"
        /\ current_piece'.col # current_piece.col) =>
           current_t_spin' = "None"]_vars

\* A T piece carrying the borderline marker moved one column and carries
\* no marker.
MovedWithBorderlineMarker ==
    /\ call.op = "apply_piece_move"
    /\ call.result = 1
    /\ call.t_spin = "PointFive"
    /\ current_piece.col # call.from[2]
    /\ current_t_spin = "None"

\* The tick translated the piece in play and its last change was not a
\* rotation: the piece is the same piece (no lock, no hold), its row or
\* column changed, and no rotation was applied.
TranslatedOnly ==
    /\ TickStep
    /\ state.tag \in {"Falling", "Lock"}
    /\ state'.tag \in {"Falling", "Lock"}
    /\ "Hold" \notin applied_actions'
    /\ applied_actions' \cap Rotations = {}
    /\ <<current_piece'.row, current_piece'.col>>
           # <<current_piece.row, current_piece.col>>

\* C27: the spin marker is reset by every translation.  After a tick in
\* which the position of the piece changed and no rotation was the last
\* change (a horizontal move, a descent by gravity or soft drop, a hard
\* drop of at least one row), the spin marker is None.
TranslationResetsSpin ==
    [][TranslatedOnly => current_t_spin' = "None"]_vars

\* The gravity apply_gravity works with in the tick just taken.
EffectiveGravity ==
    IF "SoftDrop" \in actions' THEN GravityMul(gravity, SOFT_DROP_FACTOR) ELSE gravity

\* The piece as the tick's move and rotation left it, before gravity.
ActedPiece ==
    LET draw == CHOOSE d \in GeneratorNext(tetromino_generator) : TRUE
    IN  apply_actions(Engine, actions', draw).engine.current_piece

\* The rows gravity lowered the piece by in the tick just taken.
GravityRows == ActedPiece.row - current_piece'.row

\* A tick taken in Falling(n) that applied neither a hold nor a hard drop.
FallingTick ==
    /\ TickStep
    /\ state.tag = "Falling"
    /\ ~aborted'
    /\ applied_actions' \cap {"Hold", "HardDrop"} = {}

\* C28: the Falling transition.  On a tick in Falling(n) where neither
\* hold nor hard drop is applied, the next state is Lock(1) if the piece,
\* after this tick's move, rotation and gravity, cannot drop one row;
\* otherwise Falling(1) if gravity lowered the piece by at least one row in
\* this tick; otherwise Falling(n + 1).
FallingTransition ==
    [][FallingTick =>
           state' = (IF is_in_lock_position(playfield', current_piece') THEN Lock(1)
                     ELSE IF GravityRows >= 1 THEN Falling(1)
                     ELSE Falling(state.n + 1))]_vars

\* What the code does: a descent of exactly one row under a RowsPerTick
\* gravity does not count as a drop, every other descent does.
FallingTransitionAsCounted ==
    [][FallingTick =>
           state' = (IF is_in_lock_position(playfield', current_piece') THEN Lock(1)
                     ELSE IF GravityRows >= 1
                             /\ ~(EffectiveGravity.kind = "RowsPerTick" /\ GravityRows = 1)
                          THEN Falling(1)
                          ELSE Falling(state.n + 1))]_vars

\* C29: multiplying a gravity by a factor f >= 1 never yields a slower
\* gravity and stays in range.  TicksPerRow(n) * f is TicksPerRow(m) with
\* 1 <= m <= n when n > f, and otherwise RowsPerTick(r) with 1 <= r <= 20;
\* RowsPerTick(n) * f is RowsPerTick(r) with r <= 20, and n <= r when
\* n <= 20.  In particular the product by the soft-drop factor is never a
\* RowsPerTick above the visible height.
ProductIsFasterAndInRange ==
    call.op = "mul" =>
        IF gravity.kind = "TicksPerRow"
        THEN IF gravity.n * FactorDen > call.arg
             THEN /\ call.result.kind = "TicksPerRow"
                  /\ 1 <= call.result.n
                  /\ call.result.n <= gravity.n
             ELSE /\ call.result.kind = "RowsPerTick"
                  /\ 1 <= call.result.n
                  /\ call.result.n <= VISIBLE_HEIGHT
        ELSE /\ call.result.kind = "RowsPerTick"
             /\ call.result.n <= VISIBLE_HEIGHT
             /\ gravity.n <= VISIBLE_HEIGHT => gravity.n <= call.result.n

\* The default gravity was multiplied by the soft-drop factor: one row
\* every two ticks (30 / 20 rounds up).
SoftDropOfDefaultGravity ==
    /\ call.op = "mul"
    /\ gravity = TicksPerRow(DEFAULT_TICKS_PER_ROW)
    /\ call.arg = SOFT_DROP_FACTOR * FactorDen
    /\ call.result = TicksPerRow(2)

\* A tick taken in Lock(n) below the lock delay that applied no action.
IdleLockTick ==
    /\ TickStep
    /\ state.tag = "Lock"
    /\ state.n < LOCK_DELAY
    /\ applied_actions' = {}
    /\ ~aborted'

\* C30: in Lock(n) with n < LOCK_DELAY, a tick on which no action is
\* applied yields Lock(n + 1): the delay is not restarted, whichever
\* actions were active without being applied (a soft drop, a blocked
\* move, a rotation that found no position, a hold that is unavailable),
\* and the piece stays where it is.
IdleLockTickCounts ==
    [][IdleLockTick =>
           /\ state' = Lock(state.n + 1)
           /\ current_piece' = current_piece
           /\ playfield' = playfield]_vars

\* The last tick was taken in Lock(n) with a rotation active that found no
\* position, and counted on to Lock(n + 1).
FailedRotationCounted ==
    /\ dispatched.tag = "Lock"
    /\ actions \cap Rotations # {}
    /\ applied_actions = {}
    /\ ~aborted
    /\ state = Lock(dispatched.n + 1)

\* A tick taken in Falling(n), n >= 1, with no action active.
QuietFallingTick ==
    /\ TickStep
    /\ state.tag = "Falling"
    /\ state.n >= 1
    /\ actions' = {}
    /\ ~aborted'

\* The rows the piece can descend, up to n_rows.
FreeRows(n_rows) == drop(playfield, current_piece, n_rows)

\* C31: the gravity cadence with no input and an unobstructed column.
\* Under TicksPerRow(t), t >= 1, a tick in Falling(n) with n < t leaves the
\* piece where it is and counts to Falling(n + 1); the tick in Falling(t)
\* lowers the piece exactly one row and, the piece not resting there,
\* returns to Falling(1): descents are exactly t ticks apart.  Under
\* RowsPerTick(r) every tick lowers the piece exactly r rows.
GravityCadence ==
    [][QuietFallingTick =>
           IF gravity.kind = "TicksPerRow"
           THEN IF state.n < gravity.n
                THEN /\ current_piece' = current_piece
                     /\ is_in_lock_position(playfield, current_piece)
                        \/ state' = Falling(state.n + 1)
                ELSE FreeRows(1) = 1 =>
                         /\ current_piece' =
                                [current_piece EXCEPT !.row = current_piece.row - 1]
                         /\ is_in_lock_position(playfield', current_piece')
                            \/ state' = Falling(1)
           ELSE FreeRows(gravity.n) = gravity.n =>
                    current_piece' =
                        [current_piece EXCEPT !.row = current_piece.row - gravity.n]]_vars

\* Under the default gravity the piece counted up to Falling(t) and the
\* tick taken there lowered it to the row below the spawn row.
DescendedOnTheTthTick ==
    /\ gravity = TicksPerRow(DEFAULT_TICKS_PER_ROW)
    /\ dispatched = Falling(DEFAULT_TICKS_PER_ROW)
    /\ actions = {}
    /\ state = Falling(1)
    /\ current_piece.row = SPAWN_ROW - 1

\* The tick just taken notified on_lock: the current piece was locked.
LockedInTick == \E i \in 1..Len(observed') : observed'[i].event = "on_lock"

\* C32: no drawn piece is discarded.  Whenever a tick draws the next
\* current piece from the upcoming queue, the piece that was current has
\* been locked into the field by that tick or has been moved into the hold
\* slot by it: one piece is drawn per lock, whether or not the lock fills a
\* row.
NoDrawnPieceDiscarded ==
    [][(TickStep /\ next_pieces' # next_pieces) =>
           \/ LockedInTick
           \/ /\ "Hold" \in applied_actions'
              /\ hold_piece' = current_piece.shape]_vars

\* What the code does: a piece is drawn by every lock, by every hold into
\* an empty slot, and once more by the tick that ends a line clear.
PieceDrawnByLockHoldOrLineClear ==
    [][(TickStep /\ next_pieces' # next_pieces) =>
           \/ LockedInTick
           \/ /\ "Hold" \in applied_actions'
              /\ hold_piece' = current_piece.shape
           \/ /\ state = LineClear(LINE_CLEAR_DELAY)
              /\ state' = Spawn
              /\ current_piece' = CurrentPieceNew(Head(next_pieces))]_vars

\* C33: in every reachable state Falling(n) or Lock(n) the current piece
\* does not collide with the field: none of its cells is outside the left,
\* right or bottom border or on an occupied cell, right after a hold
\* substitution included.
PieceInPlayNeverCollides ==
    (state.tag \in {"Falling", "Lock"} /\ ~aborted) =>
        ~Collides(playfield, current_piece)

\* What the code ensures: a piece that has not come from a hold does not
\* collide while it is in play.
PieceNotFromHoldNeverCollides ==
    (state.tag \in {"Falling", "Lock"} /\ ~aborted /\ is_hold_available) =>
        ~Collides(playfield, current_piece)

\* The tick just taken notified on_lock with a spin other than None.
LockedWithSpinInTick ==
    \E i \in 1..Len(observed') :
        observed'[i].event = "on_lock" /\ observed'[i].arg # "None"

\* C34: on_lock reports a spin other than None only when the piece being
\* locked is a T piece, and a spin marker earned by a T piece does not
\* carry over to a different piece through a hold: after a tick that
\* applied a hold and put another shape in play, the marker is None.
SpinOnlyForTPieces ==
    [][TickStep =>
           /\ LockedWithSpinInTick => current_piece.shape = "T"
           /\ ("Hold" \in applied_actions' /\ current_piece'.shape # "T") =>
                  current_t_spin' = "None"]_vars

\* What the code ensures: without a hold since the piece came into play,
\* only a T piece carries a marker.
MarkerOnlyOnTUnlessHeld ==
    (is_hold_available /\ current_piece.shape # "T") => current_t_spin = "None"

\* C35: no fail-fast abort is reachable.  For every sequence of signals
\* and ticks from a new engine no tick panics: not on a field access out
\* of range, not in the O or 180-degree branch of the kick table, not on an
\* empty upcoming queue, not in the unimplemented branch of apply_gravity.
NoAbortReachable == ~aborted

\* What the code ensures: a tick panics only in the kick-table lookup for
\* an O piece that came into play through a hold.
AbortOnlyForHeldO ==
    aborted => (current_piece.shape = "O" /\ ~is_hold_available
                /\ Collides(playfield, current_piece))

\* The piece lowered by one row collides.
Resting(field, piece) == Collides(field, [piece EXCEPT !.row = piece.row - 1])

\* C36: whenever the state is Lock(n) the current piece is resting:
\* lowered by one row it would collide.  Consequently the lock procedure,
\* at Lock(LOCK_DELAY) or after a hard drop, is applied only to a piece
\* that cannot descend further: one of the cells it sets lies on the floor
\* or on a block that was in the field before.
LockedPieceIsResting ==
    [][(TickStep /\ ~aborted') =>
           /\ state'.tag = "Lock" => Resting(playfield', current_piece')
           /\ LockedInTick =>
                  \E c \in playfield' \ playfield :
                      c[1] = 1 \/ <<c[1] - 1, c[2]>> \in playfield]_vars

\* A move applied in Lock(n) took the piece to a column where it rests as
\* well: the state is Lock(1) again.
MovedAndStillResting ==
    /\ dispatched.tag = "Lock"
    /\ applied_actions \cap {"MoveLeft", "MoveRight"} # {}
    /\ state = Lock(1)
    /\ Resting(playfield, current_piece)

\* C37: the field contains no full row in any reachable state other than
\* LineClear(n), and in LineClear(n) it contains between 1 and 4 full
\* rows; hence every on_line_clear(k) has 1 <= k <= 4.
FullRowsOnlyInLineClear ==
    /\ IF state.tag = "LineClear"
       THEN Cardinality(FullRows(playfield)) \in 1..4
       ELSE FullRows(playfield) = {}
    /\ \A i \in 1..Len(observed) :
           observed[i].event = "on_line_clear" => observed[i].arg \in 1..4

\* The tick that ended a line clear removed two full rows and notified
\* them: blocks are left in the field and none of its rows is full.
TwoRowsClearedAndNotified ==
    /\ dispatched = LineClear(LINE_CLEAR_DELAY)
    /\ state = Spawn
    /\ \E i \in 1..Len(observed) :
           observed[i].event = "on_line_clear" /\ observed[i].arg = 2
    /\ playfield # {}
    /\ FullRows(playfield) = {}

\* A new engine with the bag generator and the default gravity, whose
\* caller never signals an action and keeps calling tick.
ScenarioUntouched ==
    [generators |-> BagGeneratorNew,
     gravity |-> TicksPerRow(DEFAULT_TICKS_PER_ROW),
     opening |-> <<>>, loop |-> FALSE, free |-> FALSE]

InitIdle == InitOf({ScenarioUntouched})

SpecIdle == InitIdle /\ [][Tick]_vars /\ WF_vars(Tick)

\* A bound on the ticks the piece in play has left before it is locked:
\* LOCK_DELAY - n in Lock(n); in Falling(n) the ticks to fall every row
\* down to the floor, one row every t ticks, and the lock delay.
TicksLeft(st, piece, t) ==
    IF st.tag = "Lock" THEN LOCK_DELAY - st.n
    ELSE LOCK_DELAY + (piece.row + 3) * (t + 1) - st.n

\* C38: with no action ever signalled, from a new engine (default
\* gravity, any bag order) every piece is locked within a bounded number
\* of ticks (each tick that does not lock the piece in play lowers the
\* bound TicksLeft, which is never negative) and the engine eventually
\* reaches TopOut.
UntouchedEngineTopsOut ==
    /\ [][(state.tag \in {"Falling", "Lock"}) =>
              \/ state'.tag = "Spawn" /\ LockedInTick
              \/ /\ state'.tag \in {"Falling", "Lock"}
                 /\ TicksLeft(state', current_piece', gravity.n) >= 0
                 /\ TicksLeft(state', current_piece', gravity.n)
                        < TicksLeft(state, current_piece, gravity.n)]_vars
    /\ <>(state = TopOut)

\* The engine topped out without any action ever signalled: the stack of
\* pieces locked where they fell reaches the spawn rows.
ToppedOutUntouched ==
    /\ state = TopOut
    /\ \E c \in playfield : c[1] >= SPAWN_ROW + 2
    /\ hold_piece = NoPiece

\* single.rs, StatTracker::on_line_clear: the (n_rows, last_lock) pairs of
\* the score table; every other pair reaches the panic arm.
ScoreTableHandles(n_rows, last_lock) ==
    \/ n_rows \in 1..4 /\ last_lock = "None"
    \/ n_rows = 1 /\ last_lock = "Mini"
    \/ n_rows \in 1..3 /\ last_lock = "Regular"

\* C39: the scoring observer never aborts: for every on_line_clear(k) the
\* engine emits, the call before it was an on_lock and the pair (k, spin
\* reported by that on_lock) is one of the eight pairs of the score table.
LineClearPairsAreScored ==
    [][TickStep =>
           \A i \in 1..Len(observed') :
               observed'[i].event = "on_line_clear" =>
                   /\ last_placement.event = "on_lock"
                   /\ ScoreTableHandles(observed'[i].arg, last_placement.arg)]_vars

\* Every on_line_clear follows an on_lock, with no other placement call in
\* between.
LineClearFollowsLock ==
    [][TickStep =>
           \A i \in 1..Len(observed') :
               observed'[i].event = "on_line_clear" =>
                   last_placement.event = "on_lock"]_vars

\* The O swapped in by a hold after the T was kicked was locked with the
\* marker Mini of the T and filled two rows.
CarriedMiniDouble ==
    /\ state.tag = "LineClear"
    /\ last_placement.event = "on_lock"
    /\ last_placement.arg = "Mini"
    /\ Cardinality(FullRows(playfield)) = 2
    /\ hold_piece = "T"

\* C40: in every reachable state Lock(n) has 1 <= n <= LOCK_DELAY and
\* LineClear(n) has 1 <= n <= LINE_CLEAR_DELAY, and the counter never
\* passes the threshold: the tick taken in Lock(LOCK_DELAY) runs the lock
\* procedure whatever the actions, and the tick taken in
\* LineClear(LINE_CLEAR_DELAY) runs the compaction.
CountersStayInRange ==
    /\ [](/\ state.tag = "Lock" => state.n \in 1..LOCK_DELAY
          /\ state.tag = "LineClear" => state.n \in 1..LINE_CLEAR_DELAY)
    /\ [][TickStep =>
              /\ state = Lock(LOCK_DELAY) =>
                     /\ LockedInTick
                     /\ applied_actions' = {}
                     /\ state'.tag \in {"Spawn", "LineClear", "TopOut"}
                     /\ state'.tag = "LineClear" => state'.n = 1
              /\ state = LineClear(LINE_CLEAR_DELAY) =>
                     /\ \E i \in 1..Len(observed') :
                            observed'[i].event = "on_line_clear"
                     /\ FullRows(playfield') = {}
                     /\ state' = Spawn
              /\ state'.tag = "Lock" =>
                     \/ state'.n = 1
                     \/ state.tag = "Lock" /\ state'.n = state.n + 1
              /\ state'.tag = "LineClear" =>
                     \/ state'.n = 1 /\ LockedInTick
                     \/ state.tag = "LineClear" /\ state'.n = state.n + 1]_vars

\* The tick taken in Lock(LOCK_DELAY) locked the piece, which filled a row:
\* the pause of the line clear starts at LineClear(1).
LockDelayRanOutIntoLineClear ==
    /\ dispatched = Lock(LOCK_DELAY)
    /\ state = LineClear(1)
    /\ \E i \in 1..Len(observed) : observed[i].event = "on_lock"
    /\ FullRows(playfield) # {}

====
